---- MODULE Spec2Model ----
(***************************************************************************)
(* tokenspy: the usage-accounting core.                                    *)
(*                                                                         *)
(*   Tracker                  tokenspy/tracker.py                          *)
(*   _AnthropicStreamWrapper  tokenspy/providers/anthropic.py              *)
(*   _OpenAIStreamWrapper     tokenspy/providers/openai.py                 *)
(*   profile(budget_usd=...)  tokenspy/profiler.py                         *)
(*                                                                         *)
(* Tracker.record is modelled statement by statement, one action per       *)
(* statement, for every thread that is inside it.  Money is counted in     *)
(* whole price units (integers); floating-point rounding is not modelled.  *)
(***************************************************************************)
EXTENDS Integers, Sequences, FiniteSets, TLC

\* ---------------------------------------------------------------- bounds
NThreads == 2
MaxCalls == 2
MaxHooks == 2
MaxCost == 2
MaxResets == 1
MaxEvents == 3
MaxTok == 2
MaxFinalize == 1
MaxDepth == 2
MaxEnters == 2
MaxBudget == 3
MaxGuardCalls == 3
MaxObjs == 2
MaxList == 2
MaxViews == 1
MaxRows == 3
MaxTs == 2
MaxLoads == 2
MaxLcEvents == 3
MaxPatch == 2
SwapBudget == 1

Threads == 1..NThreads
HookIds == 1..MaxHooks
\* cost_usd of a directly recorded call: a cheap and an expensive price point
Costs == {1, MaxCost}

NoThread == 0
NoCommit == "None"
TrackerCommits == {NoCommit, "abc1234"}

\* ------------------------------------------------------------- variables
VARIABLES
    records,        \* Tracker._records
    lock,           \* Tracker._lock: the thread that holds it, or NoThread
    hooks,          \* Tracker._post_record_hooks
    git_commit,     \* Tracker._git_commit
    persist_path,   \* Tracker._persist_path: TRUE when a path is configured
    db,             \* the rows of table llm_calls of the durable log
    pc,             \* per thread: the statement of Tracker.record / reset it is at
    rec,            \* per thread: the CallRecord argument of the running record()
    snap,           \* per thread: list(self._post_record_hooks) of the running record()
    idx,            \* per thread: position of the for loop in snap
    ret,            \* per thread: who called record() (where it returns to)
    nextId,         \* identity of the next CallRecord object to be constructed
    nextHook,       \* identity of the next observer function to be created
    called,         \* history, per thread: the hooks invoked by the running record(), in order
    outs,           \* history, per thread: how each of those invocations ended
    issuedCost,     \* history: summed cost_usd of the CallRecords handed to record()
    appendLog,      \* history: ids in the order their append completed
    cleared,        \* history: ids that a reset() removed from records
    nresets,        \* history: number of reset() calls so far
    current_function, \* the list the interceptor shares with the wrappers
    kwargs,         \* the keyword arguments of the intercepted create() call
    a_pulled,       \* Anthropic: the events the wrapper has taken from self._stream so far
    a_done,         \* Anthropic: self._stream has reported exhaustion
    a_in,           \* _AnthropicStreamWrapper._input_tokens
    a_out,          \* _AnthropicStreamWrapper._output_tokens
    a_recorded,     \* _AnthropicStreamWrapper._recorded
    a_gen,          \* Anthropic: state of the generator made by __iter__
    a_with,         \* Anthropic: state of the with block around the wrapper
    a_sexit,        \* Anthropic: self._stream.__exit__ has been called
    a_nfinal,       \* history: number of direct wrapper._finalize() calls by the host
    a_by,           \* history: which trigger made the wrapper's record
    a_yielded,      \* Anthropic: the events the generator has handed to the consumer
    o_pulled,       \* OpenAI: the chunks the wrapper has taken from self._stream so far
    o_done,         \* OpenAI: self._stream has reported exhaustion
    o_last,         \* OpenAI: last_chunk of the generator made by __iter__
    o_gen,          \* OpenAI: state of that generator
    o_yielded,      \* OpenAI: the chunks the generator has handed to the consumer
    o_with,         \* OpenAI: state of the with block around the wrapper
    stack,          \* the active invocations of profile() wrappers, outermost first
    g_env,          \* per observer id: what the _budget_check closure captured
    exc,            \* the exception in flight in the host thread, or NoExc
    advisories,     \* history: the warnings.warn calls made by budget checks
    outcomes,       \* history: how each finished wrapper invocation ended
    heap,           \* the CallRecord objects the host has constructed, by identity
    trk_records,    \* per Tracker: _records as a list of object identities
    trk_commit,     \* per Tracker: _git_commit
    view,           \* the list object the host got from its last records() call
    everAppended,   \* history: the objects some Tracker has appended
    d_pc,           \* the statement of Tracker(persist_path=p) that runs next
    d_path,         \* that Tracker's _persist_path: TRUE when it is not None
    d_file,         \* what is at the path p in the file system
    d_table,        \* the state of table llm_calls in the database at p
    d_rows,         \* the rows of llm_calls, in rowid order
    d_mem,          \* that Tracker's _records
    d_written,      \* history: per rowid, the record whose INSERT made the row
    d_loaded,       \* the list returned by the last load_from_db()
    d_src,          \* history: per element of d_loaded, the rowid it was read from
    d_nloads,       \* history: number of load_from_db() calls
    l_start,        \* TokenspyCallbackHandler._start is not None
    l_fn_name,      \* TokenspyCallbackHandler._fn_name
    l_inflight,     \* history: a start was received, no end or error since
    l_nev,          \* history: number of callbacks delivered
    target,         \* history: the function name current when create() was intercepted
    given,          \* history: per record id, the git_commit its caller set
    global_tracker, \* tracker.py _global_tracker: which Tracker is the global one
    trk_hooks,      \* per Tracker, its _post_record_hooks
    sw_guard,       \* the budget wrapper of profiler.py: its baseline and checks
    summ,           \* a summary() call: reads done and the dict being built
    create,         \* per provider, what the SDK class's create attribute is
    patched,        \* per provider, the module's _patched flag
    original_create,\* per provider, the module's _original_create
    ncalls,         \* history: create() calls with usage that went through a wrapper
    npatch          \* history: per provider, patch() calls since the last unpatch()

trackerVars == <<records, lock, hooks, git_commit, persist_path, db>>
threadVars == <<pc, rec, snap, idx, ret>>
histVars == <<nextId, nextHook, called, outs, issuedCost, appendLog, cleared, nresets>>
envVars == <<current_function, kwargs>>
anthVars == <<a_pulled, a_done, a_in, a_out, a_recorded, a_gen, a_with, a_sexit,
              a_nfinal, a_by, a_yielded>>
oaiVars == <<o_pulled, o_done, o_last, o_gen, o_yielded, o_with>>
streamVars == <<envVars, anthVars, oaiVars>>
guardVars == <<stack, g_env, exc, advisories, outcomes>>
objVars == <<heap, trk_records, trk_commit, view, everAppended>>
durVars == <<d_pc, d_path, d_file, d_table, d_rows, d_mem, d_written, d_loaded,
             d_src, d_nloads>>
lcVars == <<l_start, l_fn_name, l_inflight, l_nev>>
restVars == <<target, given, global_tracker, trk_hooks, sw_guard, summ, create,
              patched, original_create, ncalls, npatch>>
extVars == <<objVars, durVars, lcVars, restVars>>
vars == <<trackerVars, threadVars, histVars, streamVars, guardVars, extVars>>

\* --------------------------------------------------------------- helpers
RECURSIVE SumCost(_)
SumCost(s) == IF s = <<>> THEN 0 ELSE s[1].cost_usd + SumCost(Tail(s))

Ids(s) == [i \in 1..Len(s) |-> s[i].id]
IdSet(s) == {s[i].id : i \in 1..Len(s)}
SeqSet(s) == {s[i] : i \in 1..Len(s)}

RECURSIVE RemoveFirst(_, _)
\* list.remove(x): drops the first occurrence; the ValueError of a missing x
\* is the caller's to handle, here the list is returned unchanged.
RemoveFirst(s, x) ==
    IF s = <<>> THEN <<>>
    ELSE IF s[1] = x THEN Tail(s)
    ELSE <<s[1]>> \o RemoveFirst(Tail(s), x)

\* CallRecord(...) as the dataclass builds it (tracker.py:18-33); duration,
\* timestamp, call_stack and session_id play no part in the model.
CallRecord(id, fn, model, provider, inTok, outTok, cost) ==
    [id |-> id, function_name |-> fn, model |-> model, provider |-> provider,
     input_tokens |-> inTok, output_tokens |-> outTok, cost_usd |-> cost,
     git_commit |-> NoCommit]

NoRec == CallRecord(0, "", "", "", 0, 0, 0)

\* current_function[0] if current_function else "<unknown>"
\* (anthropic.py:80, openai.py:199)
FnName(cf) == IF cf # <<>> THEN cf[1] ELSE "<unknown>"

\* ------------------------------------------------------- Tracker queries
\* Tracker.records(): list(self._records) under the lock.
Records == records
\* Tracker.total_cost(), total_calls()
total_cost == SumCost(Records)
total_calls == Len(Records)

\* ------------------------------------------------------------------ Init
\* a chunk of an OpenAI stream: chunk.usage is None, or carries prompt_tokens
\* and completion_tokens (0 stands for a count that is missing, None or 0)
Chunks ==
    {[has_usage |-> FALSE, prompt_tokens |-> 0, completion_tokens |-> 0]}
    \cup [has_usage : {TRUE}, prompt_tokens : 0..MaxTok, completion_tokens : 0..MaxTok]
\* last_chunk = None   (openai.py:46)
NoChunk == [has_usage |-> FALSE, prompt_tokens |-> -1, completion_tokens |-> -1]

\* event.message / event.usage of an Anthropic event
NoUsage == -2       \* the usage attribute is missing or None
NoCount == -1       \* a usage object whose token count is missing, None or 0
UsageVals == {NoUsage, NoCount} \cup (1..MaxTok)
\* an event of an Anthropic stream (test_streaming.py:117-132); `message` says
\* whether a message_start event has a message object
Events ==
    [type : {"message_start"}, message : {TRUE}, usage : UsageVals]
    \cup {[type |-> "message_start", message |-> FALSE, usage |-> NoUsage]}
    \cup [type : {"message_delta"}, message : {FALSE}, usage : UsageVals]
    \cup [type : {"content_block_delta", "message_stop"}, message : {FALSE},
          usage : {NoUsage}]

\* Tracker.__init__ (tracker.py:50-57) without a revision tag, and no thread
\* inside it
InitTracker ==
    /\ records = <<>>
    /\ lock = NoThread
    /\ git_commit = NoCommit
    /\ db = <<>>
    /\ pc = [t \in Threads |-> "idle"]
    /\ rec = [t \in Threads |-> NoRec]
    /\ snap = [t \in Threads |-> <<>>]
    /\ idx = [t \in Threads |-> 0]
    /\ ret = [t \in Threads |-> "none"]
    /\ nextId = 1
    /\ called = [t \in Threads |-> <<>>]
    /\ outs = [t \in Threads |-> <<>>]
    /\ issuedCost = 0
    /\ appendLog = <<>>
    /\ cleared = {}
    /\ nresets = 0

\* _AnthropicStreamWrapper.__init__ (anthropic.py:31-48) and
\* _OpenAIStreamWrapper.__init__ (openai.py:29-43)
InitWrappers ==
    /\ a_pulled = <<>>
    /\ a_done = FALSE
    /\ a_in = 0
    /\ a_out = 0
    /\ a_recorded = FALSE
    /\ a_gen = "none"
    /\ a_with = "none"
    /\ a_sexit = FALSE
    /\ a_nfinal = 0
    /\ a_by = "none"
    /\ a_yielded = <<>>
    /\ o_pulled = <<>>
    /\ o_done = FALSE
    /\ o_last = NoChunk
    /\ o_gen = "none"
    /\ o_yielded = <<>>
    /\ o_with = "none"

\* no exception in flight
NoExc == [kind |-> "none", spent |-> 0, budget |-> 0, by |-> 0]

\* no profile() wrapper is running
InitGuards ==
    /\ stack = <<>>
    /\ g_env = <<>>
    /\ exc = NoExc
    /\ advisories = <<>>
    /\ outcomes = <<>>

\* the two Trackers of the object-level view
Trackers == {"a", "b"}
\* no records() call has been made yet
NoView == [n |-> 0, live |-> FALSE, of |-> "a", at |-> <<>>, val |-> <<>>]

\* no CallRecord constructed; two Trackers as Tracker() leaves them
\* (tracker.py:51-55)
InitObjects ==
    /\ heap = <<>>
    /\ trk_records = [k \in Trackers |-> <<>>]
    /\ trk_commit = [k \in Trackers |-> NoCommit]
    /\ view = NoView
    /\ everAppended = {}

\* before Tracker(persist_path=p) is called
InitDurable ==
    /\ d_pc = "new"
    /\ d_path = FALSE
    /\ d_file = "missing"
    /\ d_table = "none"
    /\ d_rows = <<>>
    /\ d_mem = <<>>
    /\ d_written = <<>>
    /\ d_loaded = <<>>
    /\ d_src = <<>>
    /\ d_nloads = 0

\* TokenspyCallbackHandler.__init__   (langchain.py:61-63)
InitHandler ==
    /\ l_start = FALSE
    /\ l_fn_name = "<unknown>"
    /\ l_inflight = FALSE
    /\ l_nev = 0

\* the provider modules that patch the SDK classes' create method
Providers == {"openai", "anthropic"}
\* no budget wrapper has been entered   (profiler.py:96-130)
NoSwapGuard == [state |-> "none", home |-> "a", baseline |-> 0, checks |-> <<>>]
\* the fields of the dict summary() returns, in the order they are read:
\* `records = self.records()` first, then the dict literal   (tracker.py:109-131)
SummaryFields == <<"calls", "total_cost_usd", "total_tokens", "by_function", "by_model">>
\* no summary() call has been made
NoSummary == [n |-> 0, calls |-> <<>>, total_cost_usd |-> 0, total_tokens |-> 0,
              by_function |-> <<>>, by_model |-> <<>>]

\* the two provider modules as imported, the global Tracker as created at
\* import, no budget wrapper entered, no summary() under way
\* (openai.py:17-19, anthropic.py:17-19, tracker.py:240)
InitRest ==
    /\ given = <<>>
    /\ global_tracker = "a"
    /\ trk_hooks = [k \in Trackers |-> <<>>]
    /\ sw_guard = NoSwapGuard
    /\ summ = NoSummary
    /\ create = [p \in Providers |-> "original"]
    /\ patched = [p \in Providers |-> FALSE]
    /\ original_create = [p \in Providers |-> "None"]
    /\ ncalls = 0
    /\ npatch = [p \in Providers |-> 0]

InitExt == InitObjects /\ InitDurable /\ InitHandler /\ InitRest

\* Tracker() or Tracker(persist_path=p): nothing recorded, no observer
Init ==
    /\ InitExt
    /\ InitGuards
    /\ InitTracker
    /\ persist_path \in BOOLEAN
    /\ hooks = <<>>
    /\ nextHook = 1
    /\ current_function = <<>>
    /\ kwargs = [stream |-> TRUE]
    /\ InitWrappers
    /\ target = FnName(current_function)

\* what the patched create() hands to a wrapper: the interceptor's list of
\* current function names and the keyword arguments of the call
CallContexts ==
    {[cf |-> <<>>, kw |-> [stream |-> TRUE]],
     [cf |-> <<"my_func">>, kw |-> [stream |-> TRUE, model |-> "gpt-4o"]]}

\* a wrapper just built around a stream by the patched create(): the Tracker
\* has no observer or one, the create() call named a model or not, and the
\* interceptor's current-function list is empty or holds one name
InitStream ==
    /\ InitExt
    /\ InitGuards
    /\ InitTracker
    /\ persist_path \in BOOLEAN
    /\ hooks \in {<<>>, <<1>>}
    /\ nextHook = Len(hooks) + 1
    /\ \E ctx \in CallContexts :
          current_function = ctx.cf /\ kwargs = ctx.kw
    /\ InitWrappers
    /\ target = FnName(current_function)

\* -------------------------------------------------------- Tracker.record
\* tracker.py:63-64
Stamp_overwrite(r, tc) ==
    IF tc # NoCommit THEN [r EXCEPT !.git_commit = tc] ELSE r
Stamp(r, tc) ==
    IF tc # NoCommit /\ r.git_commit = NoCommit
    THEN [r EXCEPT !.git_commit = tc]
    ELSE r

\* the statement that follows the stamp: the append under the lock comes
\* before the save and the hooks   (tracker.py:65-72)
FirstStep_hooksFirst == "snapshot"
FirstStep == "acquire"

\* Entry into record(r) by thread t on behalf of caller `from`: the stamp is
\* the first statement of record and touches only the argument.
EnterRecord(t, r, from) ==
    /\ rec' = [rec EXCEPT ![t] = Stamp(r, git_commit)]
    /\ pc' = [pc EXCEPT ![t] = FirstStep]
    /\ ret' = [ret EXCEPT ![t] = from]
    /\ issuedCost' = issuedCost + r.cost_usd
    /\ UNCHANGED <<snap, idx, called, outs>>

\* A host thread calls tracker.record(CallRecord(...)) directly
\* (test_budget.py:13-26).
RecordCall(t) ==
    /\ pc[t] = "idle"
    /\ nextId <= MaxCalls
    /\ \E c \in Costs :
          EnterRecord(t, CallRecord(nextId, "test_fn", "gpt-4o", "openai", 0, 0, c),
                      "direct")
    /\ nextId' = nextId + 1
    /\ UNCHANGED <<trackerVars, nextHook, appendLog, cleared, nresets>>
    /\ UNCHANGED <<streamVars, guardVars, extVars>>

\* with self._lock:   (tracker.py:65)
CanAcquire(t) == lock = NoThread

Acquire(t) ==
    /\ pc[t] = "acquire"
    /\ CanAcquire(t)
    /\ lock' = t
    /\ pc' = [pc EXCEPT ![t] = "append"]
    /\ UNCHANGED <<records, hooks, git_commit, persist_path, db, rec, snap, idx, ret, histVars>>
    /\ UNCHANGED <<streamVars, guardVars, extVars>>

\* self._records.append(rec)   (tracker.py:66)
AppendRec_front(recs, r) == <<r>> \o recs
AppendRec(recs, r) == Append(recs, r)

AppendStep(t) ==
    /\ pc[t] = "append"
    /\ records' = AppendRec(records, rec[t])
    /\ appendLog' = Append(appendLog, rec[t].id)
    /\ pc' = [pc EXCEPT ![t] = "release"]
    /\ UNCHANGED <<lock, hooks, git_commit, persist_path, db, rec, snap, idx, ret,
                   nextId, nextHook, called, outs, issuedCost, cleared, nresets>>
    /\ UNCHANGED <<streamVars, guardVars, extVars>>

\* the lock once the with block of record() is left   (tracker.py:65-66)
AfterWith_held(t) == t
AfterWith(t) == NoThread

\* leaving the with block, then `if self._persist_path:`   (tracker.py:65-67)
Release(t) ==
    /\ pc[t] = "release"
    /\ lock' = AfterWith(t)
    /\ pc' = [pc EXCEPT ![t] = IF persist_path THEN "save" ELSE "snapshot"]
    /\ UNCHANGED <<records, hooks, git_commit, persist_path, db, rec, snap, idx, ret, histVars>>
    /\ UNCHANGED <<streamVars, guardVars, extVars>>

\* self._save_to_db(rec)   (tracker.py:68, 166-196)
\* The INSERT either commits one row or raises; the raise is swallowed.
SaveRow(rows, r) == Append(rows, r)

\* where record() goes on after _save_to_db: `except Exception: pass`
\* (tracker.py:195-196) turns a failed write into a normal return
AfterSave_raise(ok) == IF ok THEN "snapshot" ELSE "raised"
AfterSave(ok) == "snapshot"

Save(t) ==
    /\ pc[t] = "save"
    /\ \E ok \in BOOLEAN :
          /\ db' = IF ok THEN SaveRow(db, rec[t]) ELSE db
          /\ pc' = [pc EXCEPT ![t] = AfterSave(ok)]
    /\ UNCHANGED <<records, lock, hooks, git_commit, persist_path,
                   rec, snap, idx, ret, histVars>>
    /\ UNCHANGED <<streamVars, guardVars, extVars>>

\* for hook in list(self._post_record_hooks):   (tracker.py:72)
Snapshot(t) ==
    /\ pc[t] = "snapshot"
    /\ snap' = [snap EXCEPT ![t] = hooks]
    /\ idx' = [idx EXCEPT ![t] = 1]
    /\ pc' = [pc EXCEPT ![t] = "dispatch"]
    /\ UNCHANGED <<trackerVars, rec, ret, histVars>>
    /\ UNCHANGED <<streamVars, guardVars, extVars>>

\* ------------------------------------------------ observers (hook bodies)
\* What one invocation hook(rec) can do.  The body of an observer is host
\* code: it returns, raises an ordinary Exception, or raises
\* BudgetExceededError (profiler.py:37, a BaseException that is not an
\* Exception; raised by _budget_check, profiler.py:115).
HookOutcomes == {"return", "Exception", "BudgetExceededError"}
\* What the body does to the observer list while it runs.
HookEffects == {"none", "remove_self", "append_other"}

\* except Exception: pass   (tracker.py:75-76): which outcomes leave record()
Propagates_all(out) == out # "return"
Propagates_none(out) == FALSE
Propagates(out) == out = "BudgetExceededError"

\* the list the for loop walks: a copy taken before the first invocation
\* (tracker.py:72)
DispatchList_live(t) == hooks
DispatchList(t) == snap[t]

\* "append_other" registers a function created by the body (fresh identity)
ApplyEffect(hs, h, eff) ==
    CASE eff = "none" -> hs
      [] eff = "remove_self" -> RemoveFirst(hs, h)
      [] eff = "append_other" -> Append(hs, nextHook)

\* hook(rec) for the hook at the loop position   (tracker.py:73-76).
\* The body queries records() (as _budget_check does through total_cost,
\* profiler.py:108), which takes the lock, as total_cost() and reset() do:
\* the body waits while another thread holds it.
InvokeHook(t) ==
    /\ pc[t] = "dispatch"
    /\ idx[t] <= Len(DispatchList(t))
    /\ lock = NoThread
    /\ LET h == DispatchList(t)[idx[t]] IN
       \E out \in HookOutcomes, eff \in HookEffects :
          /\ eff = "append_other" => nextHook <= MaxHooks
          /\ nextHook' = IF eff = "append_other" THEN nextHook + 1 ELSE nextHook
          /\ called' = [called EXCEPT ![t] = Append(@, h)]
          /\ outs' = [outs EXCEPT ![t] = Append(@, out)]
          /\ hooks' = ApplyEffect(hooks, h, eff)
          /\ IF Propagates(out)
             THEN /\ pc' = [pc EXCEPT ![t] = "raised"]
                  /\ idx' = idx
             ELSE /\ pc' = pc
                  /\ idx' = [idx EXCEPT ![t] = @ + 1]
    /\ UNCHANGED <<records, lock, git_commit, persist_path, db, rec, snap, ret,
                   nextId, issuedCost, appendLog, cleared, nresets>>
    /\ UNCHANGED <<streamVars, guardVars, extVars>>

\* the for loop is exhausted: record() returns None   (tracker.py:72)
DispatchEnd(t) ==
    /\ pc[t] = "dispatch"
    /\ idx[t] > Len(DispatchList(t))
    /\ pc' = [pc EXCEPT ![t] = "returned"]
    /\ UNCHANGED <<trackerVars, rec, snap, idx, ret, histVars>>
    /\ UNCHANGED <<streamVars, guardVars, extVars>>

\* record() is left (by return or by the propagating signal): its frame and
\* the history of this call are dropped
LeaveRecord(t) ==
    /\ pc' = [pc EXCEPT ![t] = "idle"]
    /\ rec' = [rec EXCEPT ![t] = NoRec]
    /\ snap' = [snap EXCEPT ![t] = <<>>]
    /\ idx' = [idx EXCEPT ![t] = 0]
    /\ ret' = [ret EXCEPT ![t] = "none"]
    /\ called' = [called EXCEPT ![t] = <<>>]
    /\ outs' = [outs EXCEPT ![t] = <<>>]

\* the host thread that called record() directly carries on, whether record
\* returned or raised
Resume(t) ==
    /\ pc[t] \in {"returned", "raised"}
    /\ ret[t] = "direct"
    /\ LeaveRecord(t)
    /\ UNCHANGED <<trackerVars, nextId, nextHook, issuedCost, appendLog, cleared, nresets>>
    /\ UNCHANGED <<streamVars, guardVars, extVars>>

\* --------------------------------------------------------- Tracker.reset
\* with self._lock:   (tracker.py:83)
ResetAcquire(t) ==
    /\ pc[t] = "idle"
    /\ nresets < MaxResets
    /\ CanAcquire(t)
    /\ lock' = t
    /\ pc' = [pc EXCEPT ![t] = "reset_clear"]
    /\ nresets' = nresets + 1
    /\ UNCHANGED <<records, hooks, git_commit, persist_path, db,
                   rec, snap, idx, ret, nextId, nextHook, called, outs, issuedCost,
                   appendLog, cleared>>
    /\ UNCHANGED <<streamVars, guardVars, extVars>>

\* self._records.clear()   (tracker.py:84)
Clear_oldest(recs) == IF recs = <<>> THEN <<>> ELSE Tail(recs)
Clear(recs) == <<>>

\* self._records.clear(), then the lock is released   (tracker.py:84)
ResetClear(t) ==
    /\ pc[t] = "reset_clear"
    /\ records' = Clear(records)
    /\ cleared' = cleared \cup IdSet(records)
    /\ lock' = NoThread
    /\ pc' = [pc EXCEPT ![t] = "idle"]
    /\ UNCHANGED <<hooks, git_commit, persist_path, db,
                   rec, snap, idx, ret, nextId, nextHook, called, outs, issuedCost,
                   appendLog, nresets>>
    /\ UNCHANGED <<streamVars, guardVars, extVars>>

\* ------------------------------------- registration of observers by hosts
\* tracker._post_record_hooks.append(f) for a function f just created
\* (profiler.py:107-120, test_budget.py:134)
HookAppend ==
    /\ nextHook <= MaxHooks
    /\ hooks' = Append(hooks, nextHook)
    /\ nextHook' = nextHook + 1
    /\ UNCHANGED <<records, lock, git_commit, persist_path, db, threadVars,
                   nextId, called, outs, issuedCost, appendLog, cleared, nresets>>
    /\ UNCHANGED <<streamVars, guardVars, extVars>>

\* tracker._post_record_hooks.remove(f)   (profiler.py:126-129)
HookRemove(h) ==
    /\ h \in SeqSet(hooks)
    /\ hooks' = RemoveFirst(hooks, h)
    /\ UNCHANGED <<records, lock, git_commit, persist_path, db, threadVars, histVars>>
    /\ UNCHANGED <<streamVars, guardVars, extVars>>

\* ----------------------------------------------------------- the Tracker
\* the statements of record()
RecordStep(t) ==
    \/ Acquire(t)
    \/ AppendStep(t)
    \/ Release(t)
    \/ Save(t)
    \/ Snapshot(t)
    \/ InvokeHook(t)
    \/ DispatchEnd(t)

Next ==
    \/ \E t \in Threads : RecordCall(t)
    \/ \E t \in Threads : RecordStep(t)
    \/ \E t \in Threads : Resume(t)
    \/ \E t \in Threads : ResetAcquire(t)
    \/ \E t \in Threads : ResetClear(t)
    \/ HookAppend
    \/ \E h \in HookIds : HookRemove(h)

Spec == Init /\ [][Next]_vars

\* ====================================================== streaming wrappers
\* the thread that consumes the stream
Consumer == 1

\* pricing.calculate(model, input_tokens, output_tokens): a pure function of
\* its arguments that returns the cost and does not raise
calculate(model, i, o) == i + 2 * o

\* kwargs.get(key, default)
KwGet(kw, key, default) == IF key \in DOMAIN kw THEN kw[key] ELSE default
\* getattr(usage, name, 0) or 0   (anthropic.py:63, 67)
TokOf(u) == IF u = NoCount THEN 0 ELSE u

\* yield event / yield chunk (anthropic.py:53, openai.py:49): what the
\* generator hands to the consumer for the element it has just pulled
YieldOf_none(x) == NoChunk
YieldOf(x) == x

\* ------------------------------------------------ _AnthropicStreamWrapper
\* _process_event (anthropic.py:56-67): the new value of _input_tokens
ProcessInput(cur, ev) ==
    IF ev.type = "message_start" /\ ev.message /\ ev.usage # NoUsage
    THEN TokOf(ev.usage)
    ELSE cur
\* _process_event: the new value of _output_tokens
ProcessOutput_sum(cur, ev) ==
    IF ev.type = "message_delta" /\ ev.usage # NoUsage
    THEN cur + TokOf(ev.usage)
    ELSE cur
ProcessOutput(cur, ev) ==
    IF ev.type = "message_delta" /\ ev.usage # NoUsage
    THEN TokOf(ev.usage)
    ELSE cur

\* the generator pulls the next event, processes it and yields it
\* (anthropic.py:51-53)
AnthNextEvent(t) ==
    /\ pc[t] = "idle"
    /\ a_gen \in {"none", "suspended"}
    /\ ~a_done
    /\ Len(a_pulled) < MaxEvents
    /\ \E ev \in Events :
          /\ a_pulled' = Append(a_pulled, ev)
          /\ a_in' = ProcessInput(a_in, ev)
          /\ a_out' = ProcessOutput(a_out, ev)
          /\ a_yielded' = Append(a_yielded, YieldOf(ev))
    /\ a_gen' = "suspended"
    /\ UNCHANGED <<extVars, guardVars, trackerVars, threadVars, histVars, envVars, oaiVars,
                   a_done, a_recorded, a_with, a_sexit, a_nfinal, a_by>>

\* if self._recorded: return   (anthropic.py:70-71)
AlreadyRecorded_never(flag) == FALSE
AlreadyRecorded(flag) == flag

\* the CallRecord built by _finalize (anthropic.py:77-91)
AnthRecord_initial ==
    CallRecord(nextId, FnName(current_function), KwGet(kwargs, "model", "unknown"),
               "anthropic", 0, 0, calculate(KwGet(kwargs, "model", "unknown"), 0, 0))
AnthRecord ==
    CallRecord(nextId, FnName(current_function), KwGet(kwargs, "model", "unknown"),
               "anthropic", a_in, a_out,
               calculate(KwGet(kwargs, "model", "unknown"), a_in, a_out))

\* _finalize past its guard: the flag is set, the record is built and
\* tracker.record is entered (anthropic.py:72-92)
FinalizeCall(t, by) ==
    /\ a_recorded' = TRUE
    /\ a_by' = by
    /\ nextId' = nextId + 1
    /\ EnterRecord(t, AnthRecord, by)

\* _finalize returns at its guard: nothing changes
FinalizeSkip ==
    UNCHANGED <<a_recorded, a_by, nextId, issuedCost, threadVars, called, outs>>

\* the underlying stream is exhausted: the for loop ends and the generator
\* calls self._finalize()   (anthropic.py:51, 54)
AnthExhaust(t) ==
    /\ pc[t] = "idle"
    /\ a_gen \in {"none", "suspended"}
    /\ a_done' = TRUE
    /\ IF AlreadyRecorded(a_recorded)
       THEN a_gen' = "done" /\ FinalizeSkip
       ELSE a_gen' = "finalizing" /\ FinalizeCall(t, "anth_iter")
    /\ UNCHANGED <<extVars, guardVars, trackerVars, nextHook, appendLog, cleared, nresets, envVars,
                   oaiVars, a_pulled, a_yielded, a_in, a_out, a_with, a_sexit, a_nfinal>>

\* tracker.record has returned or raised inside the generator: the generator
\* ends with StopIteration, or with the signal that record let through
\* (except Exception, anthropic.py:93-94, does not catch it)
AnthIterDone(t) ==
    /\ pc[t] \in {"returned", "raised"}
    /\ ret[t] = "anth_iter"
    /\ a_gen' = IF pc[t] = "returned" THEN "done" ELSE "failed"
    /\ LeaveRecord(t)
    /\ UNCHANGED <<extVars, guardVars, trackerVars, nextId, nextHook, issuedCost, appendLog, cleared,
                   nresets, envVars, oaiVars, a_pulled, a_yielded, a_done, a_in, a_out,
                   a_recorded, a_with, a_sexit, a_nfinal, a_by>>

\* the consumer leaves its for loop early: the suspended generator is closed
\* at its yield, where no finally clause waits   (anthropic.py:50-54)
AnthBreak(t) ==
    /\ pc[t] = "idle"
    /\ a_gen = "suspended"
    /\ a_gen' = "closed"
    /\ UNCHANGED <<extVars, guardVars, trackerVars, threadVars, histVars, envVars, oaiVars,
                   a_pulled, a_yielded, a_done, a_in, a_out, a_recorded, a_with, a_sexit,
                   a_nfinal, a_by>>

\* __enter__ (anthropic.py:96-99)
AnthEnter(t) ==
    /\ pc[t] = "idle"
    /\ a_with = "none"
    /\ a_with' = "entered"
    /\ UNCHANGED <<extVars, guardVars, trackerVars, threadVars, histVars, envVars, oaiVars,
                   a_pulled, a_yielded, a_done, a_in, a_out, a_recorded, a_gen, a_sexit,
                   a_nfinal, a_by>>

\* __exit__ (anthropic.py:101-105): self._finalize(), then the stream's own
\* __exit__
AnthExit(t) ==
    /\ pc[t] = "idle"
    /\ a_with = "entered"
    /\ IF AlreadyRecorded(a_recorded)
       THEN a_with' = "exited" /\ a_sexit' = TRUE /\ FinalizeSkip
       ELSE a_with' = "exiting" /\ a_sexit' = a_sexit /\ FinalizeCall(t, "anth_exit")
    /\ UNCHANGED <<extVars, guardVars, trackerVars, nextHook, appendLog, cleared, nresets, envVars,
                   oaiVars, a_pulled, a_yielded, a_done, a_in, a_out, a_gen, a_nfinal>>

\* tracker.record has returned or raised inside __exit__: line 103 is reached
\* only when it returned
AnthExitDone(t) ==
    /\ pc[t] \in {"returned", "raised"}
    /\ ret[t] = "anth_exit"
    /\ a_with' = "exited"
    /\ a_sexit' = (pc[t] = "returned")
    /\ LeaveRecord(t)
    /\ UNCHANGED <<extVars, guardVars, trackerVars, nextId, nextHook, issuedCost, appendLog, cleared,
                   nresets, envVars, oaiVars, a_pulled, a_yielded, a_done, a_in, a_out,
                   a_recorded, a_gen, a_nfinal, a_by>>

\* the host calls wrapper._finalize() itself (test_streaming.py:163)
AnthExplicit(t) ==
    /\ pc[t] = "idle"
    /\ a_nfinal < MaxFinalize
    /\ a_nfinal' = a_nfinal + 1
    /\ IF AlreadyRecorded(a_recorded)
       THEN FinalizeSkip
       ELSE FinalizeCall(t, "anth_explicit")
    /\ UNCHANGED <<extVars, guardVars, trackerVars, nextHook, appendLog, cleared, nresets, envVars,
                   oaiVars, a_pulled, a_yielded, a_done, a_in, a_out, a_gen, a_with, a_sexit>>

AnthExplicitDone(t) ==
    /\ pc[t] \in {"returned", "raised"}
    /\ ret[t] = "anth_explicit"
    /\ LeaveRecord(t)
    /\ UNCHANGED <<extVars, guardVars, trackerVars, nextId, nextHook, issuedCost, appendLog, cleared,
                   nresets, streamVars>>

NextAnthropic ==
    \/ AnthNextEvent(Consumer)
    \/ AnthExhaust(Consumer)
    \/ AnthIterDone(Consumer)
    \/ AnthBreak(Consumer)
    \/ AnthEnter(Consumer)
    \/ AnthExit(Consumer)
    \/ AnthExitDone(Consumer)
    \/ AnthExplicit(Consumer)
    \/ AnthExplicitDone(Consumer)
    \/ RecordStep(Consumer)

SpecAnthropic == InitStream /\ [][NextAnthropic]_vars

\* --------------------------------------------------- _OpenAIStreamWrapper
\* the generator pulls the next chunk, keeps it in last_chunk and yields it
\* (openai.py:47-49)
OaiNextChunk(t) ==
    /\ pc[t] = "idle"
    /\ o_gen \in {"none", "suspended"}
    /\ ~o_done
    /\ Len(o_pulled) < MaxEvents
    /\ \E ch \in Chunks :
          /\ o_pulled' = Append(o_pulled, ch)
          /\ o_last' = ch
          /\ o_yielded' = Append(o_yielded, YieldOf(ch))
    /\ o_gen' = "suspended"
    /\ UNCHANGED <<extVars, guardVars, trackerVars, threadVars, histVars, envVars, anthVars, o_done, o_with>>

\* input_tokens / output_tokens of _record (openai.py:195-196)
OaiInput_swapped(ch) == ch.completion_tokens
OaiInput(ch) == ch.prompt_tokens
OaiOutput(ch) == ch.completion_tokens

\* usage = getattr(response, "usage", None); `if usage is None: return`
\* (openai.py:191-193)
HasUsage_always(ch) == TRUE
HasUsage(ch) == ch.has_usage

\* the CallRecord built by _record from a response (openai.py:190-210)
OaiRecord(ch) ==
    CallRecord(nextId, FnName(current_function), KwGet(kwargs, "model", "unknown"),
               "openai", OaiInput(ch), OaiOutput(ch),
               calculate(KwGet(kwargs, "model", "unknown"), OaiInput(ch), OaiOutput(ch)))

\* the underlying stream is exhausted: the for loop ends; if a chunk was seen,
\* _record(last_chunk) runs and returns at once when last_chunk.usage is None
\* (openai.py:47, 51-54, 191-193)
OaiExhaust(t) ==
    /\ pc[t] = "idle"
    /\ o_gen \in {"none", "suspended"}
    /\ o_done' = TRUE
    /\ IF o_last # NoChunk /\ HasUsage(o_last)
       THEN /\ o_gen' = "finalizing"
            /\ nextId' = nextId + 1
            /\ EnterRecord(t, OaiRecord(o_last), "oai_iter")
       ELSE /\ o_gen' = "done"
            /\ UNCHANGED <<nextId, issuedCost, threadVars, called, outs>>
    /\ UNCHANGED <<extVars, guardVars, trackerVars, nextHook, appendLog, cleared, nresets, envVars,
                   anthVars, o_pulled, o_yielded, o_with, o_last>>

\* tracker.record has returned or raised inside the generator (except
\* Exception, openai.py:212-213, does not catch the signal)
OaiIterDone(t) ==
    /\ pc[t] \in {"returned", "raised"}
    /\ ret[t] = "oai_iter"
    /\ o_gen' = IF pc[t] = "returned" THEN "done" ELSE "failed"
    /\ LeaveRecord(t)
    /\ UNCHANGED <<extVars, guardVars, trackerVars, nextId, nextHook, issuedCost, appendLog, cleared,
                   nresets, envVars, anthVars, o_pulled, o_yielded, o_with, o_done, o_last>>

\* the consumer leaves its for loop early: the suspended generator is closed
\* at its yield   (openai.py:45-54)
OaiBreak(t) ==
    /\ pc[t] = "idle"
    /\ o_gen = "suspended"
    /\ o_gen' = "closed"
    /\ UNCHANGED <<extVars, guardVars, trackerVars, threadVars, histVars, envVars, anthVars,
                   o_pulled, o_yielded, o_with, o_done, o_last>>

\* __enter__ (openai.py:69-72)
OaiEnter(t) ==
    /\ pc[t] = "idle"
    /\ o_with = "none"
    /\ o_with' = "entered"
    /\ UNCHANGED <<extVars, guardVars, trackerVars, threadVars, histVars, envVars, anthVars,
                   o_pulled, o_yielded, o_done, o_last, o_gen>>

\* __exit__ (openai.py:74-77): the stream's own __exit__ and nothing else
OaiExit(t) ==
    /\ pc[t] = "idle"
    /\ o_with = "entered"
    /\ o_with' = "exited"
    /\ UNCHANGED <<extVars, guardVars, trackerVars, threadVars, histVars, envVars, anthVars,
                   o_pulled, o_yielded, o_done, o_last, o_gen>>

NextOpenAI ==
    \/ OaiNextChunk(Consumer)
    \/ OaiExhaust(Consumer)
    \/ OaiIterDone(Consumer)
    \/ OaiBreak(Consumer)
    \/ OaiEnter(Consumer)
    \/ OaiExit(Consumer)
    \/ RecordStep(Consumer)

SpecOpenAI == InitStream /\ [][NextOpenAI]_vars

\* ------------------------------------------- one wrapper of either variant
\* the patched create() of one provider has returned its wrapper; the other
\* provider's wrapper is never built
AnthUntouched ==
    a_gen = "none" /\ a_with = "none" /\ a_nfinal = 0 /\ ~a_done /\ ~a_recorded
OaiUntouched ==
    o_gen = "none" /\ o_with = "none" /\ ~o_done

NextStreaming ==
    \/ OaiUntouched /\ NextAnthropic
    \/ AnthUntouched /\ NextOpenAI

SpecStreaming == InitStream /\ [][NextStreaming]_vars

\* ================================================= profile(budget_usd=...)
\* the thread that calls the guarded functions
Host == 1

\* budget_usd is None: the wrapper sets up no guard   (profiler.py:103-104)
NoBudget == -1
NoGuard == 0
\* the ceilings tried: one that a single cheap record reaches but does not
\* exceed, and one that no single record exceeds
Budgets == {1, MaxBudget}
\* on_exceeded   (profiler.py:58, 114)
Policies == {"warn", "raise"}

\* func.__qualname__ of the function wrapped at a nesting depth
FnAt(depth) == IF depth = 1 THEN "outer_agent" ELSE "inner_agent"

\* baseline = get_global_tracker().total_cost()   (profiler.py:105)
Baseline == total_cost

\* spent = get_global_tracker().total_cost() - baseline   (profiler.py:108)
Spent(baseline) == total_cost - baseline
\* if spent > budget_usd:   (profiler.py:109)
Exceeds_geq(spent, budget) == spent >= budget
Exceeds(spent, budget) == spent > budget
\* if on_exceeded == "raise":   (profiler.py:114)
Fatal_always(policy) == TRUE
Fatal(policy) == policy = "raise"
\* BudgetExceededError(spent, budget_usd)   (profiler.py:44-46, 115); `by` is
\* history: the observer that raised it
BudgetExceededError_swapped(spent, budget, h) ==
    [kind |-> "BudgetExceededError", spent |-> budget, budget |-> spent, by |-> h]
BudgetExceededError(spent, budget, h) ==
    [kind |-> "BudgetExceededError", spent |-> spent, budget |-> budget, by |-> h]
\* an ordinary Exception raised by the body of the guarded function
BodyException == [kind |-> "Exception", spent |-> 0, budget |-> 0, by |-> 0]

\* get_global_tracker()._post_record_hooks.remove(guard), ValueError ignored
\* (profiler.py:126-129)
Unregister_keep(hs, g) == hs
Unregister_all(hs, g) == <<>>
Unregister(hs, g) == RemoveFirst(hs, g)

\* the guards of the active wrapper invocations, outermost first
RECURSIVE ActiveGuards(_)
ActiveGuards(st) ==
    IF st = <<>> THEN <<>>
    ELSE (IF st[1].guard = NoGuard THEN <<>> ELSE <<st[1].guard>>)
         \o ActiveGuards(Tail(st))

\* wrapper(*args, **kwargs) up to the call of func   (profiler.py:96-122):
\* the current function is switched, and with a budget the baseline is read
\* and a new _budget_check closure is appended to the observer list.
GuardEnter(t) ==
    /\ pc[t] = "idle"
    /\ exc = NoExc
    /\ Len(stack) < MaxDepth
    /\ Len(stack) + Len(outcomes) < MaxEnters
    /\ current_function' = <<FnAt(Len(stack) + 1)>>
    /\ \E b \in Budgets \cup {NoBudget}, pol \in Policies :
          IF b # NoBudget
          THEN /\ nextHook <= MaxHooks
               /\ g_env' = Append(g_env, [baseline |-> Baseline, budget |-> b,
                                          policy |-> pol, entry |-> issuedCost])
               /\ hooks' = Append(hooks, nextHook)
               /\ nextHook' = nextHook + 1
               /\ stack' = Append(stack, [guard |-> nextHook, prev |-> current_function,
                                          fn |-> FnAt(Len(stack) + 1)])
          ELSE /\ pol = "warn"
               /\ stack' = Append(stack, [guard |-> NoGuard, prev |-> current_function,
                                          fn |-> FnAt(Len(stack) + 1)])
               /\ UNCHANGED <<g_env, hooks, nextHook>>
    /\ UNCHANGED <<records, lock, git_commit, persist_path, db, threadVars,
                   nextId, called, outs, issuedCost, appendLog, cleared, nresets,
                   kwargs, extVars, anthVars, oaiVars, exc, advisories, outcomes>>

\* the host, inside a guarded function or outside of any, makes a call that
\* is recorded: tracker.record(CallRecord(...))   (test_budget.py:13-26)
BodyRecord(t) ==
    /\ pc[t] = "idle"
    /\ exc = NoExc
    /\ nextId <= MaxGuardCalls
    /\ \E c \in Costs :
          EnterRecord(t, CallRecord(nextId, "test_fn", "gpt-4o", "openai", 0, 0, c),
                      "body")
    /\ nextId' = nextId + 1
    /\ UNCHANGED <<trackerVars, nextHook, appendLog, cleared, nresets>>
    /\ UNCHANGED <<streamVars, guardVars, extVars>>

\* hook(rec) for a _budget_check closure at the loop position of record()
\* (tracker.py:73-76, profiler.py:107-117); exc is the host's exception in
\* flight: a BudgetExceededError raised in another thread's record() call
\* leaves that call (pc "raised") and never reaches the host
CheckInvoke(t) ==
    /\ pc[t] = "dispatch"
    /\ idx[t] <= Len(DispatchList(t))
    /\ lock = NoThread
    /\ LET h == DispatchList(t)[idx[t]]
           env == g_env[h]
           spent == Spent(env.baseline)
       IN  /\ called' = [called EXCEPT ![t] = Append(@, h)]
           /\ IF Exceeds(spent, env.budget) /\ Fatal(env.policy)
              THEN /\ exc' = IF t = Host
                            THEN BudgetExceededError(spent, env.budget, h)
                            ELSE exc
                   /\ outs' = [outs EXCEPT ![t] = Append(@, "BudgetExceededError")]
                   /\ pc' = [pc EXCEPT ![t] = "raised"]
                   /\ UNCHANGED <<idx, advisories>>
              ELSE /\ advisories' =
                         IF Exceeds(spent, env.budget)
                         THEN Append(advisories, [by |-> h, spent |-> spent,
                                                  budget |-> env.budget,
                                                  rec |-> rec[t].id])
                         ELSE advisories
                   /\ outs' = [outs EXCEPT ![t] = Append(@, "return")]
                   /\ idx' = [idx EXCEPT ![t] = @ + 1]
                   /\ UNCHANGED <<pc, exc>>
    /\ UNCHANGED <<trackerVars, rec, snap, ret, nextId, nextHook, issuedCost,
                   appendLog, cleared, nresets, streamVars, extVars, stack, g_env, outcomes>>

\* record() comes back to the host code that called it, by return or with
\* the BudgetExceededError in flight
BodyResume(t) ==
    /\ pc[t] \in {"returned", "raised"}
    /\ ret[t] = "body"
    /\ LeaveRecord(t)
    /\ UNCHANGED <<trackerVars, nextId, nextHook, issuedCost, appendLog, cleared, nresets>>
    /\ UNCHANGED <<streamVars, guardVars, extVars>>

\* the body of the guarded function raises an ordinary Exception
BodyRaise(t) ==
    /\ pc[t] = "idle"
    /\ exc = NoExc
    /\ stack # <<>>
    /\ exc' = BodyException
    /\ UNCHANGED <<extVars, trackerVars, threadVars, histVars, streamVars,
                   stack, g_env, advisories, outcomes>>

\* what the wrapper hands to its caller when func returned v   (profiler.py:123)
WrapperReturn(v) == v

\* func has returned or an exception leaves it: the finally clause removes the
\* guard and restores the current function, then the wrapper returns func's
\* value or lets the exception go on to its caller   (profiler.py:122-130).
\* The caller of the outermost guarded function catches what reaches it.
GuardExit(t) ==
    /\ pc[t] = "idle"
    /\ stack # <<>>
    /\ LET fr == stack[Len(stack)] IN
          /\ hooks' = IF fr.guard # NoGuard THEN Unregister(hooks, fr.guard) ELSE hooks
          /\ current_function' = fr.prev
          /\ outcomes' = Append(outcomes,
                [guard |-> fr.guard, kind |-> exc.kind, spent |-> exc.spent,
                 budget |-> exc.budget, by |-> exc.by,
                 value |-> IF exc = NoExc THEN WrapperReturn(fr.fn) ELSE "",
                 func |-> fr.fn])
    /\ stack' = SubSeq(stack, 1, Len(stack) - 1)
    /\ exc' = IF Len(stack) = 1 THEN NoExc ELSE exc
    /\ UNCHANGED <<records, lock, git_commit, persist_path, db, threadVars, histVars,
                   kwargs, extVars, anthVars, oaiVars, g_env, advisories>>

\* the enclosing guarded function catches what its callee let through and
\* carries on
BodyCatch(t) ==
    /\ pc[t] = "idle"
    /\ stack # <<>>
    /\ exc # NoExc
    /\ exc' = NoExc
    /\ UNCHANGED <<extVars, trackerVars, threadVars, histVars, streamVars,
                   stack, g_env, advisories, outcomes>>

\* the statements of record() when the observers are budget checks
GuardedRecordStep(t) ==
    \/ Acquire(t)
    \/ AppendStep(t)
    \/ Release(t)
    \/ Save(t)
    \/ Snapshot(t)
    \/ CheckInvoke(t)
    \/ DispatchEnd(t)

NextBudget ==
    \/ GuardEnter(Host)
    \/ BodyRecord(Host)
    \/ GuardedRecordStep(Host)
    \/ BodyResume(Host)
    \/ BodyRaise(Host)
    \/ BodyCatch(Host)
    \/ GuardExit(Host)

SpecBudget == Init /\ [][NextBudget]_vars

\* ------------------------------------- a guard and a second recording thread
\* a thread that is not inside the guarded function and records on the same
\* Tracker
Other == 2

\* the host enters and leaves guarded functions while the other thread calls
\* tracker.record; the observers are the guards' checks
NextGuardMT ==
    \/ GuardEnter(Host)
    \/ GuardExit(Host)
    \/ RecordCall(Other)
    \/ GuardedRecordStep(Other)
    \/ Resume(Other)

SpecGuardMT == Init /\ [][NextGuardMT]_vars

\* ------------------------------------------------- a guard and reset()
\* the host also calls tracker.reset() inside a guarded function
NextGuardReset ==
    \/ NextBudget
    \/ stack # <<>> /\ ResetAcquire(Host)
    \/ ResetClear(Host)

SpecGuardReset == Init /\ [][NextGuardReset]_vars

\* ======================================================= CallRecord objects
\* A CallRecord is a mutable object; a Tracker's _records, and the list that
\* records() returns, hold references to it.  Two Trackers built by Tracker()
\* (no durable log, no observer registered: the write and the dispatch of
\* record() have nothing to do), driven by one host thread.
Objects == 1..Len(heap)

\* CallRecord(...) constructed by the host; git_commit defaults to None
\* (tracker.py:18-33)
NewCallRecord ==
    /\ Len(heap) < MaxObjs
    /\ \E gc \in TrackerCommits :
          heap' = Append(heap,
                     [CallRecord(Len(heap) + 1, "test_fn", "gpt-4o", "openai", 0, 0, 1)
                         EXCEPT !.git_commit = gc])
    /\ UNCHANGED <<trk_records, trk_commit, view, everAppended>>
    /\ UNCHANGED <<trackerVars, threadVars, histVars, streamVars, guardVars, durVars, lcVars, restVars>>

\* tracker._git_commit = sha   (profiler.py:204-212)
TrackGit(k) ==
    /\ trk_commit[k] = NoCommit
    /\ trk_commit' = [trk_commit EXCEPT ![k] = "abc1234"]
    /\ UNCHANGED <<heap, trk_records, view, everAppended>>
    /\ UNCHANGED <<trackerVars, threadVars, histVars, streamVars, guardVars, durVars, lcVars, restVars>>

\* Tracker.record(rec) on Tracker k with the object o   (tracker.py:61-76):
\* the stamp assigns to the attribute of the object passed in, the append
\* stores a reference to it
ObjRecord(k, o) ==
    /\ Len(trk_records[k]) < MaxList
    /\ heap' = [heap EXCEPT ![o] = Stamp(@, trk_commit[k])]
    /\ trk_records' = [trk_records EXCEPT ![k] = Append(@, o)]
    /\ everAppended' = everAppended \cup {o}
    /\ UNCHANGED <<trk_commit, view>>
    /\ UNCHANGED <<trackerVars, threadVars, histVars, streamVars, guardVars, durVars, lcVars, restVars>>

\* Tracker.reset() on Tracker k   (tracker.py:82-84)
ObjReset(k) ==
    /\ trk_records[k] # <<>>
    /\ trk_records' = [trk_records EXCEPT ![k] = Clear(@)]
    /\ UNCHANGED <<heap, trk_commit, view, everAppended>>
    /\ UNCHANGED <<trackerVars, threadVars, histVars, streamVars, guardVars, durVars, lcVars, restVars>>

\* what records() hands out   (tracker.py:78-80): list(self._records) is a
\* new list object with the same elements; "live" says the list handed out
\* is the Tracker's own list object
RecordsResult_alias(k, n) ==
    [n |-> n + 1, live |-> TRUE, of |-> k, at |-> trk_records[k], val |-> trk_records[k]]
RecordsResult(k, n) ==
    [n |-> n + 1, live |-> FALSE, of |-> k, at |-> trk_records[k], val |-> trk_records[k]]

\* the host calls records() on Tracker k and keeps the result
ObjRecords(k) ==
    /\ view.n < MaxViews
    /\ view' = RecordsResult(k, view.n)
    /\ UNCHANGED <<heap, trk_records, trk_commit, everAppended>>
    /\ UNCHANGED <<trackerVars, threadVars, histVars, streamVars, guardVars, durVars, lcVars, restVars>>

\* the elements of the list the host holds
ViewValue == IF view.live THEN trk_records[view.of] ELSE view.val

\* the host assigns the list it holds a new content (append, pop, ...)
ViewSet(new) ==
    IF view.live
    THEN /\ trk_records' = [trk_records EXCEPT ![view.of] = new]
         /\ view' = view
    ELSE /\ view' = [view EXCEPT !.val = new]
         /\ trk_records' = trk_records

\* lst.append(obj) on the list returned by records()
ViewAppend(o) ==
    /\ view.n > 0
    /\ Len(ViewValue) <= MaxList
    /\ ViewSet(Append(ViewValue, o))
    /\ UNCHANGED <<heap, trk_commit, everAppended>>
    /\ UNCHANGED <<trackerVars, threadVars, histVars, streamVars, guardVars, durVars, lcVars, restVars>>

\* lst.pop() on the list returned by records()
ViewPop ==
    /\ view.n > 0
    /\ ViewValue # <<>>
    /\ ViewSet(SubSeq(ViewValue, 1, Len(ViewValue) - 1))
    /\ UNCHANGED <<heap, trk_commit, everAppended>>
    /\ UNCHANGED <<trackerVars, threadVars, histVars, streamVars, guardVars, durVars, lcVars, restVars>>

NextObjects ==
    \/ NewCallRecord
    \/ \E k \in Trackers : TrackGit(k)
    \/ \E k \in Trackers : \E o \in Objects : ObjRecord(k, o)
    \/ \E k \in Trackers : ObjReset(k)
    \/ \E k \in Trackers : ObjRecords(k)
    \/ \E o \in Objects : ViewAppend(o)
    \/ ViewPop

SpecObjects == Init /\ [][NextObjects]_vars

\* ============================================================ durable log
\* what Tracker(persist_path=p) may find at p: a parent directory that cannot
\* be created, nothing, an SQLite database, a file that is not a database,
\* a directory
FileStates == {"unwritable", "missing", "db", "garbage", "directory"}
\* table llm_calls: absent, without the git_commit column, or complete
TableStates == {"none", "old", "full"}

\* json.dumps(call_stack) (tracker.py:181) and a TEXT that is not JSON
json_dumps(v) == [text |-> "json", value |-> v]
BadJson == [text |-> "{bad", value |-> <<>>]
\* json.loads raises on a text that is not JSON   (tracker.py:220)
CanDecode(row) == row.call_stack.text = "json"

\* the CallRecord the host passes to record(): timestamp and call_stack are
\* the fields the durable log orders by and encodes   (tracker.py:18-33)
TimedRecord(id, cost, ts) ==
    CallRecord(id, "test_fn", "gpt-4o", "openai", id, cost, cost)
       @@ [timestamp |-> ts, call_stack |-> <<"test_fn">>]

\* the row the INSERT of _save_to_db makes of a record   (tracker.py:171-192)
EncodeRow(r, rowid) ==
    [id |-> rowid, function_name |-> r.function_name,
     call_stack |-> json_dumps(r.call_stack), model |-> r.model,
     provider |-> r.provider, input_tokens |-> r.input_tokens,
     output_tokens |-> r.output_tokens, cost_usd |-> r.cost_usd,
     timestamp |-> r.timestamp, git_commit |-> r.git_commit]

\* the CallRecord load_from_db makes of a row   (tracker.py:218-231): a new
\* object (identity 0), call_stack decoded
DecodeRow(row) ==
    [id |-> 0, function_name |-> row.function_name,
     call_stack |-> row.call_stack.value, model |-> row.model,
     provider |-> row.provider, input_tokens |-> row.input_tokens,
     output_tokens |-> row.output_tokens, cost_usd |-> row.cost_usd,
     timestamp |-> row.timestamp, git_commit |-> row.git_commit]

\* Tracker(persist_path=p)   (tracker.py:50-57): the world in which it is
\* called is the input
Construct(f, tb) ==
    /\ d_pc = "new"
    /\ tb # "none" => f = "db"
    /\ d_path' = TRUE
    /\ d_file' = f
    /\ d_table' = tb
    /\ d_pc' = "mkdir"
    /\ UNCHANGED <<d_rows, d_mem, d_written, d_loaded, d_src, d_nloads>>
    /\ UNCHANGED <<trackerVars, threadVars, histVars, streamVars, guardVars, objVars, lcVars, restVars>>

\* path.parent.mkdir(...); except OSError: self._persist_path = None; return
\* (tracker.py:136-141)
InitDbMkdir ==
    /\ d_pc = "mkdir"
    /\ IF d_file = "unwritable"
       THEN d_path' = FALSE /\ d_pc' = "ready"
       ELSE d_path' = d_path /\ d_pc' = "connect"
    /\ UNCHANGED <<d_file, d_table, d_rows, d_mem, d_written, d_loaded, d_src, d_nloads>>
    /\ UNCHANGED <<trackerVars, threadVars, histVars, streamVars, guardVars, objVars, lcVars, restVars>>

\* conn = sqlite3.connect(str(path))   (tracker.py:142), outside any try:
\* a directory cannot be opened (OperationalError), a missing file is created
\* empty, any other file is opened without being read
InitDbConnect ==
    /\ d_pc = "connect"
    /\ d_pc' = IF d_file = "directory" THEN "raised" ELSE "create"
    /\ d_file' = IF d_file = "missing" THEN "db" ELSE d_file
    /\ UNCHANGED <<d_path, d_table, d_rows, d_mem, d_written, d_loaded, d_src, d_nloads>>
    /\ UNCHANGED <<trackerVars, threadVars, histVars, streamVars, guardVars, objVars, lcVars, restVars>>

\* conn.execute("CREATE TABLE IF NOT EXISTS llm_calls (...)")
\* (tracker.py:143-157), outside any try: the first statement that reads the
\* file raises DatabaseError when it is not a database; the columns created
\* do not include git_commit
InitDbCreate ==
    /\ d_pc = "create"
    /\ IF d_file = "garbage"
       THEN d_pc' = "raised" /\ d_table' = d_table
       ELSE /\ d_pc' = "alter"
            /\ d_table' = IF d_table = "none" THEN "old" ELSE d_table
    /\ UNCHANGED <<d_path, d_file, d_rows, d_mem, d_written, d_loaded, d_src, d_nloads>>
    /\ UNCHANGED <<trackerVars, threadVars, histVars, streamVars, guardVars, objVars, lcVars, restVars>>

\* try: ALTER TABLE llm_calls ADD COLUMN git_commit; except Exception: pass
\* (tracker.py:159-162)
InitDbAlter ==
    /\ d_pc = "alter"
    /\ d_table' = "full"
    /\ d_pc' = "commit"
    /\ UNCHANGED <<d_path, d_file, d_rows, d_mem, d_written, d_loaded, d_src, d_nloads>>
    /\ UNCHANGED <<trackerVars, threadVars, histVars, streamVars, guardVars, objVars, lcVars, restVars>>

\* conn.commit(); conn.close()   (tracker.py:163-164)
InitDbCommit ==
    /\ d_pc = "commit"
    /\ d_pc' = "ready"
    /\ UNCHANGED <<d_path, d_file, d_table, d_rows, d_mem, d_written, d_loaded, d_src, d_nloads>>
    /\ UNCHANGED <<trackerVars, threadVars, histVars, streamVars, guardVars, objVars, lcVars, restVars>>

\* record(rec) on the constructed Tracker   (tracker.py:61-76, 166-196): the
\* append, then _save_to_db when a path is configured.  connect creates a
\* missing file as an empty database; the INSERT commits a row only into a
\* complete table, and may fail for reasons of its own; every failure is
\* swallowed.  No observer is registered.
DurRecord ==
    /\ d_pc = "ready"
    /\ Len(d_mem) < MaxRows
    /\ \E c \in Costs, ts \in 1..MaxTs, ok \in BOOLEAN :
          LET r == TimedRecord(Len(d_mem) + 1, c, ts) IN
          /\ d_mem' = Append(d_mem, r)
          /\ d_file' = IF d_path /\ d_file = "missing" THEN "db" ELSE d_file
          /\ IF d_path /\ d_file = "db" /\ d_table = "full" /\ ok
             THEN /\ d_rows' = Append(d_rows, EncodeRow(r, Len(d_rows) + 1))
                  /\ d_written' = Append(d_written, r)
             ELSE UNCHANGED <<d_rows, d_written>>
    /\ UNCHANGED <<d_pc, d_path, d_table, d_loaded, d_src, d_nloads>>
    /\ UNCHANGED <<trackerVars, threadVars, histVars, streamVars, guardVars, objVars, lcVars, restVars>>

\* something other than tokenspy damages the call_stack text of one row
EnvCorruptRow(i) ==
    /\ d_pc = "ready"
    /\ d_rows[i].call_stack # BadJson
    /\ d_rows' = [d_rows EXCEPT ![i].call_stack = BadJson]
    /\ UNCHANGED <<d_pc, d_path, d_file, d_table, d_mem, d_written, d_loaded, d_src, d_nloads>>
    /\ UNCHANGED <<trackerVars, threadVars, histVars, streamVars, guardVars, objVars, lcVars, restVars>>

\* something other than tokenspy deletes the file or overwrites it
EnvLoseFile(f) ==
    /\ d_pc = "ready"
    /\ d_path
    /\ d_file = "db"
    /\ d_file' = f
    /\ d_table' = "none"
    /\ d_rows' = <<>>
    /\ d_written' = <<>>
    /\ UNCHANGED <<d_pc, d_path, d_mem, d_loaded, d_src, d_nloads>>
    /\ UNCHANGED <<trackerVars, threadVars, histVars, streamVars, guardVars, objVars, lcVars, restVars>>

\* the permutations of 1..n
Perms(n) == {p \in [1..n -> 1..n] : \A i, j \in 1..n : i # j => p[i] # p[j]}

\* ORDER BY timestamp   (tracker.py:209): the orders in which SQLite may
\* return the rows, as sequences of positions; rows of equal timestamp come
\* in any order
OrderByTimestamp_rowid(rows) == {[i \in 1..Len(rows) |-> i]}
OrderByTimestamp(rows) ==
    {p \in Perms(Len(rows)) :
        \A i \in 1..(Len(rows) - 1) :
           rows[p[i]].timestamp <= rows[p[i + 1]].timestamp}

\* the SELECT of load_from_db can be run   (tracker.py:202-213): a path is
\* configured, the file exists, is a database and has the table with the
\* git_commit column
Readable == d_path /\ d_file = "db" /\ d_table = "full"

\* load_from_db()   (tracker.py:198-235): [] when the log is missing or the
\* SELECT fails, else the rows in the order returned, those whose decoding
\* raises left out
LoadFromDb ==
    /\ d_pc = "ready"
    /\ d_nloads < MaxLoads
    /\ d_nloads' = d_nloads + 1
    /\ IF ~Readable
       THEN d_loaded' = <<>> /\ d_src' = <<>>
       ELSE \E p \in OrderByTimestamp(d_rows) :
               LET fetched == [i \in 1..Len(d_rows) |-> d_rows[p[i]]]
                   kept == SelectSeq(fetched, CanDecode)
               IN /\ d_loaded' = [i \in 1..Len(kept) |-> DecodeRow(kept[i])]
                  /\ d_src' = [i \in 1..Len(kept) |-> kept[i].id]
    /\ UNCHANGED <<d_pc, d_path, d_file, d_table, d_rows, d_mem, d_written>>
    /\ UNCHANGED <<trackerVars, threadVars, histVars, streamVars, guardVars, objVars, lcVars, restVars>>

NextDurable ==
    \/ \E f \in FileStates, tb \in TableStates : Construct(f, tb)
    \/ InitDbMkdir
    \/ InitDbConnect
    \/ InitDbCreate
    \/ InitDbAlter
    \/ InitDbCommit
    \/ DurRecord
    \/ \E i \in 1..Len(d_rows) : EnvCorruptRow(i)
    \/ \E f \in {"missing", "garbage"} : EnvLoseFile(f)
    \/ LoadFromDb

SpecDurable == Init /\ [][NextDurable]_vars

\* =============================================== TokenspyCallbackHandler
\* the LLMResult passed to on_llm_end: llm_output as OpenAI, as Anthropic and
\* as other providers fill it ("" and 0 stand for a key that is missing)
LLMResults ==
    {[model_name |-> "gpt-4o", model |-> "", prompt_tokens |-> 1,
      completion_tokens |-> 1, input_tokens |-> 0, output_tokens |-> 0],
     [model_name |-> "", model |-> "claude", prompt_tokens |-> 0,
      completion_tokens |-> 0, input_tokens |-> 1, output_tokens |-> 0],
     [model_name |-> "", model |-> "", prompt_tokens |-> 0,
      completion_tokens |-> 0, input_tokens |-> 0, output_tokens |-> 0]}

\* a or b for strings and for counts
OrStr(a, b) == IF a # "" THEN a ELSE b
OrInt(a, b) == IF a # 0 THEN a ELSE b

\* the CallRecord on_llm_end builds   (langchain.py:80-113)
LcRecord(resp) ==
    LET model == OrStr(resp.model_name, OrStr(resp.model, "unknown"))
        input_tokens == OrInt(resp.prompt_tokens, OrInt(resp.input_tokens, 0))
        output_tokens == OrInt(resp.completion_tokens, OrInt(resp.output_tokens, 0))
    IN CallRecord(nextId, l_fn_name, model, "langchain", input_tokens, output_tokens,
                  calculate(model, input_tokens, output_tokens))

\* on_llm_start   (langchain.py:65-72)
on_llm_start ==
    /\ pc[Consumer] = "idle"
    /\ l_nev < MaxLcEvents
    /\ l_nev' = l_nev + 1
    /\ l_start' = TRUE
    /\ l_fn_name' = FnName(current_function)
    /\ l_inflight' = TRUE
    /\ UNCHANGED <<trackerVars, threadVars, histVars, streamVars, guardVars, objVars, durVars, restVars>>

\* the guard of on_llm_end   (langchain.py:75-76)
InFlight(start) == start

\* on_llm_end   (langchain.py:74-113): returns at once when _start is None,
\* else builds the record and calls tracker.record; _start is left as it is
on_llm_end ==
    /\ pc[Consumer] = "idle"
    /\ l_nev < MaxLcEvents
    /\ l_nev' = l_nev + 1
    /\ l_inflight' = FALSE
    /\ IF InFlight(l_start)
       THEN \E resp \in LLMResults :
               /\ EnterRecord(Consumer, LcRecord(resp), "langchain")
               /\ nextId' = nextId + 1
       ELSE UNCHANGED <<threadVars, nextId, issuedCost, called, outs>>
    /\ UNCHANGED <<l_start, l_fn_name>>
    /\ UNCHANGED <<trackerVars, nextHook, appendLog, cleared, nresets>>
    /\ UNCHANGED <<streamVars, guardVars, objVars, durVars, restVars>>

\* tracker.record has returned or raised: on_llm_end is left
LcEndDone ==
    /\ pc[Consumer] \in {"returned", "raised"}
    /\ ret[Consumer] = "langchain"
    /\ LeaveRecord(Consumer)
    /\ UNCHANGED <<trackerVars, nextId, nextHook, issuedCost, appendLog, cleared, nresets>>
    /\ UNCHANGED <<streamVars, guardVars, extVars>>

\* on_llm_error   (langchain.py:115-117)
on_llm_error ==
    /\ pc[Consumer] = "idle"
    /\ l_nev < MaxLcEvents
    /\ l_nev' = l_nev + 1
    /\ l_start' = FALSE
    /\ l_inflight' = FALSE
    /\ UNCHANGED l_fn_name
    /\ UNCHANGED <<trackerVars, threadVars, histVars, streamVars, guardVars, objVars, durVars, restVars>>

NextLangchain ==
    \/ on_llm_start
    \/ on_llm_end
    \/ RecordStep(Consumer)
    \/ LcEndDone
    \/ on_llm_error

SpecLangchain == InitStream /\ [][NextLangchain]_vars

\* =================================================================== claims
Last(s) == s[Len(s)]
IsPrefix(p, s) == Len(p) <= Len(s) /\ \A i \in 1..Len(p) : p[i] = s[i]

\* no thread is inside record() or reset()
Quiescent == \A t \in Threads : pc[t] \in {"idle", "returned", "raised"}

\* C1: once all concurrent record() calls have returned (no reset in
\* between), records() holds every recorded CallRecord exactly once, in the
\* order in which the appends completed, and total_calls() / total_cost() are
\* the count and the summed cost_usd of exactly those records.
C1_AllRecordedOnce ==
    (Quiescent /\ nresets = 0) =>
        /\ Len(Records) = nextId - 1
        /\ IdSet(Records) = 1..(nextId - 1)
        /\ Ids(Records) = appendLog
        /\ total_calls = nextId - 1
        /\ total_cost = issuedCost

\* two calls were in flight together and the later caller appended first
C1_Witness ==
    /\ Quiescent /\ nresets = 0
    /\ Len(records) >= 2
    /\ records[1].id > records[2].id
    /\ records[1].cost_usd # records[2].cost_usd

\* C2: whenever record(r) invokes an observer, r has already been appended,
\* and the records() the observer reads holds r (unless a reset() has cleared
\* r from the Tracker since).
C2_AppendedBeforeHooks ==
    [][\A t \in Threads :
          Len(called'[t]) > Len(called[t]) =>
             /\ rec[t].id \in SeqSet(appendLog)
             /\ rec[t].id \in IdSet(Records) \/ rec[t].id \in cleared]_vars

\* an observer has run for a record it can see in records()
C2_Witness ==
    \E t \in Threads :
       /\ pc[t] = "dispatch" /\ called[t] # <<>>
       /\ rec[t].id \in IdSet(records)
       /\ Len(records) >= 2

\* C3: BudgetExceededError raised by an observer leaves record(): no later
\* observer of the snapshot is invoked and r stays appended.
C3_FatalPropagates ==
    \A t \in Threads :
       /\ (outs[t] # <<>> /\ Last(outs[t]) = "BudgetExceededError") => pc[t] = "raised"
       /\ pc[t] = "raised" =>
             /\ outs[t] # <<>> /\ Last(outs[t]) = "BudgetExceededError"
             /\ \A i \in 1..(Len(outs[t]) - 1) : outs[t][i] # "BudgetExceededError"
             /\ IsPrefix(called[t], snap[t])
             /\ rec[t].id \in IdSet(Records) \/ rec[t].id \in cleared

\* the first of two observers raised the signal: the second was not invoked
C3_Witness ==
    \E t \in Threads :
       /\ pc[t] = "raised"
       /\ Len(snap[t]) = 2 /\ Len(called[t]) = 1
       /\ rec[t].id \in IdSet(records)

\* C4: an ordinary Exception raised by an observer is discarded: the loop
\* goes on to the next observer of the snapshot and record() returns normally.
C4_ExceptionSwallowed ==
    \A t \in Threads :
       (\E i \in 1..Len(outs[t]) : outs[t][i] = "Exception") =>
          /\ Last(outs[t]) = "Exception" => pc[t] \in {"dispatch", "returned"}
          /\ pc[t] = "dispatch" =>
                /\ idx[t] = Len(called[t]) + 1
                /\ IsPrefix(called[t], snap[t])
          /\ pc[t] = "returned" => called[t] = snap[t]

\* the first observer raised an Exception, the second still ran, record returned
C4_Witness ==
    \E t \in Threads :
       /\ pc[t] = "returned"
       /\ Len(called[t]) = 2
       /\ outs[t][1] = "Exception"

\* C5: record(r) invokes the observers of its snapshot once each, in
\* registration order, whatever happens to the observer list meanwhile.
C5_SnapshotDispatch ==
    \A t \in Threads :
       /\ pc[t] = "dispatch" => Len(called[t]) = idx[t] - 1 /\ IsPrefix(called[t], snap[t])
       /\ pc[t] = "returned" => called[t] = snap[t]
       /\ pc[t] = "raised" => IsPrefix(called[t], snap[t])
       /\ \A i, j \in 1..Len(called[t]) : i < j => called[t][i] < called[t][j]

\* the first observer of a two-observer snapshot is no longer registered
\* (it removed itself while running) and the second was still invoked
C5_Witness ==
    \E t \in Threads :
       /\ pc[t] = "returned"
       /\ Len(snap[t]) = 2 /\ called[t] = snap[t]
       /\ snap[t][1] \notin SeqSet(hooks)
       /\ snap[t][2] \in SeqSet(hooks)

\* ------------------------------------------------------ streaming claims
Front(s) == SubSeq(s, 1, Len(s) - 1)

\* the usage of the latest message_start event that carried one (NoUsage if
\* there is none), read off the consumed events from the end
RECURSIVE LastStartUsage(_)
LastStartUsage(evs) ==
    IF evs = <<>> THEN NoUsage
    ELSE IF Last(evs).type = "message_start" /\ Last(evs).message
            /\ Last(evs).usage # NoUsage
         THEN Last(evs).usage
         ELSE LastStartUsage(Front(evs))

\* the usage of the latest message_delta event that carried one
RECURSIVE LastDeltaUsage(_)
LastDeltaUsage(evs) ==
    IF evs = <<>> THEN NoUsage
    ELSE IF Last(evs).type = "message_delta" /\ Last(evs).usage # NoUsage
         THEN Last(evs).usage
         ELSE LastDeltaUsage(Front(evs))

\* the token count a usage stands for
Reported(u) == IF u \in {NoUsage, NoCount} THEN 0 ELSE u

\* the latest chunk that carried usage (NoChunk if there is none)
RECURSIVE LastUsageChunk(_)
LastUsageChunk(chs) ==
    IF chs = <<>> THEN NoChunk
    ELSE IF Last(chs).has_usage THEN Last(chs)
         ELSE LastUsageChunk(Front(chs))

\* C6: whatever finalize triggers reach one Anthropic wrapper (exhaustion,
\* with-block exit, direct _finalize calls), it appends at most one record.
C6_FinalizeOnce ==
    /\ Len(appendLog) <= 1
    /\ Cardinality({i \in 1..Len(records) : records[i].provider = "anthropic"}) <= 1

\* exhaustion, a with-block exit and a direct _finalize call all happened
C6_Witness ==
    /\ a_gen = "done" /\ a_with = "exited" /\ a_nfinal >= 1
    /\ pc[Consumer] = "idle"
    /\ Len(records) = 1

\* C7: an OpenAI stream iterated to exhaustion whose final chunk carries usage
\* has appended, by the time exhaustion is reported, exactly one record with
\* that chunk's counts and the wrapper's model, provider and function name.
C7_TrailingSummaryRecord ==
    (o_gen \in {"done", "failed"} /\ o_pulled # <<>> /\ Last(o_pulled).has_usage) =>
        /\ Len(records) = 1
        /\ appendLog = <<records[1].id>>
        /\ records[1].input_tokens = Last(o_pulled).prompt_tokens
        /\ records[1].output_tokens = Last(o_pulled).completion_tokens
        /\ records[1].provider = "openai"
        /\ records[1].model = (IF "model" \in DOMAIN kwargs THEN kwargs.model ELSE "unknown")
        /\ records[1].function_name =
              (IF Len(current_function) > 0 THEN current_function[1] ELSE "<unknown>")

\* two usage-less chunks, then one with (2, 1)
C7_Witness ==
    /\ o_gen = "done"
    /\ Len(o_pulled) = 3
    /\ ~o_pulled[1].has_usage /\ ~o_pulled[2].has_usage /\ o_pulled[3].has_usage
    /\ Len(records) = 1
    /\ records[1].input_tokens = 2 /\ records[1].output_tokens = 1
    /\ records[1].model = "gpt-4o" /\ records[1].function_name = "my_func"

\* C8: the Anthropic counters are those of the latest message_start /
\* message_delta that carried usage, whatever other events came by, and a
\* stream iterated to exhaustion appends exactly one record with them.
C8_TypedEventRecord ==
    /\ a_in = Reported(LastStartUsage(a_pulled))
    /\ a_out = Reported(LastDeltaUsage(a_pulled))
    /\ a_gen \in {"done", "failed"} =>
          /\ Len(records) = 1
          /\ appendLog = <<records[1].id>>
          /\ a_by = "anth_iter" =>
                /\ records[1].input_tokens = Reported(LastStartUsage(a_pulled))
                /\ records[1].output_tokens = Reported(LastDeltaUsage(a_pulled))

\* message_start (2), a content event, message_delta (1), then exhaustion
C8_Witness ==
    /\ a_gen = "done" /\ a_by = "anth_iter"
    /\ Len(a_pulled) = 3
    /\ a_pulled[1].type = "message_start"
    /\ a_pulled[2].type = "content_block_delta"
    /\ a_pulled[3].type = "message_delta"
    /\ Len(records) = 1
    /\ records[1].input_tokens = 2 /\ records[1].output_tokens = 1

\* C9: the OpenAI record carries the counts of the last chunk that had usage,
\* also when usage-less chunks follow it.
C9_LastUsageWins ==
    (o_gen \in {"done", "failed"} /\ LastUsageChunk(o_pulled) # NoChunk) =>
        /\ Len(records) = 1
        /\ records[1].input_tokens = LastUsageChunk(o_pulled).prompt_tokens
        /\ records[1].output_tokens = LastUsageChunk(o_pulled).completion_tokens

\* C10: while no consumed Anthropic event has reported usage, no record has
\* been appended, and no appended record has zero input and output tokens.
C10_NoFabricatedRecord ==
    /\ (LastStartUsage(a_pulled) = NoUsage /\ LastDeltaUsage(a_pulled) = NoUsage) =>
          appendLog = <<>>
    /\ \A i \in 1..Len(records) :
          ~(records[i].input_tokens = 0 /\ records[i].output_tokens = 0)

\* C11: an OpenAI stream in which no chunk carries usage, of any length
\* (the empty stream included), appends no record and never enters record().
C11_NoUsageNoRecord ==
    (\A i \in 1..Len(o_pulled) : ~o_pulled[i].has_usage) =>
        /\ records = <<>>
        /\ appendLog = <<>>
        /\ pc[Consumer] = "idle"

\* three usage-less chunks iterated to exhaustion, nothing recorded
C11_Witness ==
    /\ o_gen = "done"
    /\ Len(o_pulled) = 3
    /\ \A i \in 1..3 : ~o_pulled[i].has_usage
    /\ records = <<>>

\* the consumer has abandoned the OpenAI wrapper: it broke out of the loop, or
\* left the with block with the generator still suspended
OaiAbandoned ==
    \/ o_gen = "closed"
    \/ o_with = "exited" /\ o_gen = "suspended"

\* C12: once the consumer has abandoned an OpenAI stream after a chunk with
\* usage was yielded, one record for that usage has been appended.
C12_AbandonStillRecords ==
    (OaiAbandoned /\ LastUsageChunk(o_yielded) # NoChunk) =>
        /\ Len(records) = 1
        /\ records[1].input_tokens = LastUsageChunk(o_yielded).prompt_tokens
        /\ records[1].output_tokens = LastUsageChunk(o_yielded).completion_tokens

\* C13: once the consumer has broken out of the loop over an Anthropic wrapper
\* that is not in a with block, after a message_start reported usage, one
\* record with the counters accumulated so far has been appended.
C13_BreakStillFinalizes ==
    (a_gen = "closed" /\ a_with = "none" /\ LastStartUsage(a_yielded) # NoUsage) =>
        /\ Len(records) = 1
        /\ records[1].input_tokens = Reported(LastStartUsage(a_yielded))
        /\ records[1].output_tokens = Reported(LastDeltaUsage(a_yielded))

\* C14: the exit of a with block around an Anthropic wrapper that has not
\* recorded yet hands record() a CallRecord with the counters of the events
\* consumed up to then; that CallRecord is the one appended, and after the exit
\* the Tracker holds exactly one record.
C14_WithExitRecordsPartial ==
    [][/\ (a_by = "none" /\ a_by' = "anth_exit") =>
             /\ rec'[Consumer].input_tokens = Reported(LastStartUsage(a_yielded))
             /\ rec'[Consumer].output_tokens = Reported(LastDeltaUsage(a_yielded))
             /\ rec'[Consumer].provider = "anthropic"
       /\ (ret[Consumer] = "anth_exit" /\ records' # records) =>
             records' = <<rec[Consumer]>>
       /\ a_with' = "exited" =>
             Len(records') = 1 /\ Len(appendLog') = 1]_vars

\* a message_start (2) and a message_delta (1) were consumed, the stream is
\* not exhausted, the with block has exited and its record holds (2, 1)
C14_Witness ==
    /\ a_with = "exited" /\ a_by = "anth_exit"
    /\ a_gen = "suspended" /\ ~a_done
    /\ Len(a_yielded) = 2
    /\ Len(records) = 1
    /\ records[1].input_tokens = 2 /\ records[1].output_tokens = 1

\* C15: at every moment the consumer of either wrapper has been handed
\* exactly the elements pulled from the underlying stream so far, unaltered
\* and in order: none is held back, dropped, duplicated or changed.
C15_Passthrough ==
    /\ a_yielded = a_pulled
    /\ o_yielded = o_pulled

\* three different events went through the Anthropic wrapper up to exhaustion
C15_Witness ==
    /\ a_gen = "done"
    /\ Len(a_yielded) = 3
    /\ a_yielded[1].type = "message_start" /\ a_yielded[1].usage = 2
    /\ a_yielded[2].type = "content_block_delta"
    /\ a_yielded[3].type = "message_delta" /\ a_yielded[3].usage = 1

\* -------------------------------------------------------- budget claims
\* what the guard of observer h has really spent: the cost handed to record()
\* since the entry of its wrapper
OwnSpent(h) == issuedCost - g_env[h].entry
\* the advisories observer h emitted for the record with id r
AdvisoriesOf(h, r) ==
    {k \in 1..Len(advisories) : advisories[k].by = h /\ advisories[k].rec = r}

\* C16: the observer list holds exactly the check functions of the guarded
\* invocations that are executing; once an invocation has ended, by return,
\* by an Exception or by BudgetExceededError, its check function is gone.
C16_GuardScoped ==
    /\ hooks = ActiveGuards(stack)
    /\ \A i \in 1..Len(outcomes) :
          outcomes[i].guard # NoGuard => outcomes[i].guard \notin SeqSet(hooks)

\* one guarded call ended by its own BudgetExceededError, another by an
\* ordinary Exception, and the observer list is empty
C16_Witness ==
    /\ stack = <<>> /\ hooks = <<>>
    /\ \E i, j \in 1..Len(outcomes) :
          /\ outcomes[i].kind = "BudgetExceededError"
          /\ outcomes[i].by = outcomes[i].guard
          /\ outcomes[j].kind = "Exception"
          /\ outcomes[j].guard # NoGuard

\* C17: a check under policy raise that is notified of a record with its
\* spent above its ceiling ends record() with a BudgetExceededError carrying
\* that spent and that ceiling; the error passes every wrapper exit unchanged
\* and is what the caller of the guarded function receives.
C17_RaiseReachesCaller ==
    [][/\ \A i \in 1..Len(called'[Host]) :
             LET h == called'[Host][i] IN
             (g_env'[h].policy = "raise"
                 /\ issuedCost' - g_env'[h].entry > g_env'[h].budget) =>
                 /\ pc'[Host] = "raised"
                 /\ i = Len(called'[Host])
                 /\ exc' = [kind |-> "BudgetExceededError",
                            spent |-> issuedCost' - g_env'[h].entry,
                            budget |-> g_env'[h].budget, by |-> h]
       /\ exc'.kind = "BudgetExceededError" =>
             /\ exc'.spent = issuedCost' - g_env'[exc'.by].entry
             /\ exc'.budget = g_env'[exc'.by].budget
             /\ exc'.spent > exc'.budget
       /\ pc[Host] = "raised" => exc' = exc
       /\ (Len(stack') < Len(stack) /\ exc.kind = "BudgetExceededError") =>
             /\ outcomes'[Len(outcomes')].kind = "BudgetExceededError"
             /\ outcomes'[Len(outcomes')].spent = exc.spent
             /\ outcomes'[Len(outcomes')].budget = exc.budget
             /\ stack' # <<>> => exc' = exc]_vars

\* ceiling 1, one record of cost 2: the caller of the guarded function
\* received BudgetExceededError(spent = 2, budget = 1)
C17_Witness ==
    \E i \in 1..Len(outcomes) :
       /\ outcomes[i].kind = "BudgetExceededError"
       /\ outcomes[i].by = outcomes[i].guard
       /\ outcomes[i].func = "outer_agent"
       /\ outcomes[i].spent = 2 /\ outcomes[i].budget = 1

\* C18: a check under policy warn emits exactly one advisory for a record
\* whose notification finds spent above the ceiling (none otherwise) and
\* returns; with no raise guard among the observers record() returns
\* normally, and a guarded function that returns hands back func's value.
C18_WarnContinues ==
    /\ \A i \in 1..Len(called[Host]) :
          LET h == called[Host][i] IN
          g_env[h].policy = "warn" =>
             /\ outs[Host][i] = "return"
             /\ Cardinality(AdvisoriesOf(h, rec[Host].id)) =
                   (IF OwnSpent(h) > g_env[h].budget THEN 1 ELSE 0)
             /\ \A k \in AdvisoriesOf(h, rec[Host].id) :
                   /\ advisories[k].spent = OwnSpent(h)
                   /\ advisories[k].budget = g_env[h].budget
    /\ (\A i \in 1..Len(snap[Host]) : g_env[snap[Host][i]].policy = "warn") =>
          pc[Host] # "raised"
    /\ exc.kind = "BudgetExceededError" => g_env[exc.by].policy = "raise"
    /\ \A i \in 1..Len(outcomes) :
          outcomes[i].kind = "none" => outcomes[i].value = outcomes[i].func

\* a guarded function under warn went over its ceiling, one advisory was
\* emitted, and it returned its value
C18_Witness ==
    /\ Len(outcomes) = 1
    /\ outcomes[1].kind = "none" /\ outcomes[1].value = "outer_agent"
    /\ outcomes[1].guard = 1 /\ g_env[1].policy = "warn"
    /\ Len(advisories) = 1
    /\ advisories[1].by = 1 /\ advisories[1].spent > advisories[1].budget

\* C19: a notified check fires (advisory or BudgetExceededError) if and only
\* if the cost recorded since its guard's entry is strictly above the ceiling.
C19_FiresIffExceeds ==
    [][Len(called'[Host]) > Len(called[Host]) =>
          LET h == called'[Host][Len(called'[Host])] IN
          (\/ Len(advisories') > Len(advisories)
           \/ exc'.kind = "BudgetExceededError" /\ exc.kind # "BudgetExceededError")
          <=> (OwnSpent(h) > g_env[h].budget)]_vars

\* cost was recorded before entry; inside, with ceiling 3, a record of cost 2
\* did not fire and a second record of cost 2 did, with spent = 4
C19_Witness ==
    /\ Len(records) = 3
    /\ Len(g_env) >= 1 /\ g_env[1].baseline > 0
    /\ advisories = <<[by |-> 1, spent |-> 4, budget |-> 3, rec |-> 3]>>

\* a check has fired for the record being dispatched
Fired(h) ==
    \/ AdvisoriesOf(h, rec[Host].id) # {}
    \/ pc[Host] = "raised" /\ exc.by = h

\* C20 (as stated): once record() is over, every guard that was active has
\* fired for this record exactly if its own spent is above its own ceiling.
C20_EachFiresOnOwnSpend ==
    pc[Host] \in {"returned", "raised"} =>
        \A i \in 1..Len(snap[Host]) :
           LET h == snap[Host][i] IN
           Fired(h) <=> (OwnSpent(h) > g_env[h].budget)

\* C20 (amended): nested guards have one observer each, in entry order, each
\* with the baseline of its own entry; every guard that is notified fires
\* exactly if its own spent is above its own ceiling; a guard is not notified
\* only when an earlier one has raised; and the exit of the inner invocation
\* leaves the outer observer registered.
C20_IndependentGuards ==
    /\ hooks = ActiveGuards(stack)
    /\ \A i, j \in 1..Len(hooks) : i < j => hooks[i] < hooks[j]
    /\ \A h \in 1..Len(g_env) : g_env[h].baseline = g_env[h].entry
    /\ \A i \in 1..Len(called[Host]) :
          LET h == called[Host][i] IN
          Fired(h) <=> (OwnSpent(h) > g_env[h].budget)
    /\ pc[Host] = "returned" => called[Host] = snap[Host]
    /\ pc[Host] = "raised" =>
          /\ IsPrefix(called[Host], snap[Host])
          /\ exc.by = called[Host][Len(called[Host])]

\* the inner guard (ceiling 1) fired on a record that left the outer one
\* (ceiling 3, other baseline) silent; the inner invocation has ended and only
\* the outer observer is registered
C20_Witness ==
    /\ Len(stack) = 1 /\ hooks = <<1>>
    /\ Len(outcomes) = 1 /\ outcomes[1].guard = 2
    /\ g_env[1].baseline # g_env[2].baseline
    /\ g_env[1].budget = 3 /\ g_env[2].budget = 1
    /\ Len(advisories) = 1 /\ advisories[1].by = 2

\* ------------------------------------------------ Tracker frame conditions
\* C21: the step of reset() that clears the list is taken with the lock held,
\* leaves the list empty in that one step, and changes neither the rows of
\* the durable log nor the observer list nor any other field of the Tracker.
C21_ResetClearsOnly ==
    [][\A t \in Threads :
          (pc[t] = "reset_clear" /\ pc'[t] # "reset_clear") =>
             /\ lock = t
             /\ records' = <<>>
             /\ db' = db
             /\ hooks' = hooks
             /\ git_commit' = git_commit /\ persist_path' = persist_path]_vars

\* a reset has emptied a Tracker that had a record, a row in the durable log
\* and a registered observer: the row and the observer are still there
C21_Witness ==
    /\ nresets = 1 /\ cleared # {}
    /\ \A t \in Threads : pc[t] = "idle"
    /\ records = <<>>
    /\ db # <<>> /\ hooks # <<>>

\* C23: a record whose durable-log write failed (no row for it in the log
\* although a path is configured) has been appended, and record() goes on to
\* the observers as if the write had succeeded: it returns after invoking all
\* of them, and leaves by an error only when an observer raised the signal.
C23_WriteFailureAbsorbed ==
    \A t \in Threads :
       (persist_path /\ pc[t] \in {"snapshot", "dispatch", "returned", "raised"}
           /\ rec[t].id \notin IdSet(db)) =>
          /\ rec[t].id \in SeqSet(appendLog)
          /\ rec[t].id \in IdSet(Records) \/ rec[t].id \in cleared
          /\ pc[t] = "returned" => called[t] = snap[t]
          /\ pc[t] = "raised" =>
                outs[t] # <<>> /\ Last(outs[t]) = "BudgetExceededError"

\* the write failed, the record is in records() and an observer was invoked
C23_Witness ==
    \E t \in Threads :
       /\ persist_path /\ pc[t] = "returned"
       /\ rec[t].id \notin IdSet(db)
       /\ rec[t].id \in IdSet(records)
       /\ called[t] # <<>>

\* C28: a thread holds the lock only at the append of record() or at the
\* clear of reset(), never at the durable-log write or while observers run;
\* whoever holds the lock can always take its next step, so nobody waiting
\* for the lock waits forever.
C28_LockOnlyForAppend ==
    /\ \A t \in Threads :
          /\ lock = t => pc[t] \in {"append", "release", "reset_clear"}
          /\ pc[t] \in {"save", "snapshot", "dispatch", "returned", "raised"} => lock # t
    /\ \A t \in Threads :
          lock = t => ENABLED (AppendStep(t) \/ Release(t) \/ ResetClear(t))
    /\ \A t \in Threads :
          pc[t] \in {"acquire", "save", "snapshot", "dispatch"} =>
             \/ ENABLED RecordStep(t)
             \/ lock \in Threads \ {t}

\* one thread is invoking observers while another holds the lock to append
C28_Witness ==
    \E t, u \in Threads :
       /\ t # u
       /\ pc[t] = "dispatch" /\ called[t] # <<>>
       /\ lock = u /\ pc[u] = "append"

\* C29: the snapshot of the observer list is taken, and the observer list is
\* changed by a registration or deregistration, only with the lock held.
C29_HookListUnderLock ==
    [][/\ \A t \in Threads :
             (pc[t] = "snapshot" /\ pc'[t] = "dispatch") => lock = t
       /\ (hooks' # hooks /\ \A t \in Threads : called'[t] = called[t]) =>
             lock # NoThread]_vars

\* the position of record id i in records() (0: not there)
PosInRecords(i) ==
    IF i \in IdSet(records)
    THEN CHOOSE k \in 1..Len(records) : records[k].id = i
    ELSE 0

\* C30: when r1 precedes r2 in records() and both record() calls notify an
\* observer, the observer has been invoked with r1 by the time it has been
\* invoked with r2.
C30_NotifiedInAppendOrder ==
    \A t, u \in Threads :
       \A i \in 1..Len(snap[t]) :
          (/\ t # u
           /\ pc[t] = "dispatch" /\ pc[u] \in {"dispatch", "returned"}
           /\ PosInRecords(rec[t].id) > 0
           /\ PosInRecords(rec[t].id) < PosInRecords(rec[u].id)
           /\ snap[t][i] \in SeqSet(called[u]))
          => snap[t][i] \in SeqSet(called[t])

\* ------------------------------------------------------ CallRecord objects
\* C22: once records() has returned a list, a later record() or reset() on
\* the Tracker does not change the elements of that list, and adding to or
\* removing from that list does not change the list the Tracker holds: no
\* step changes both.
C22_RecordsIsCopy ==
    [][(view.n > 0 /\ view'.n = view.n) =>
          /\ trk_records' # trk_records => ViewValue' = ViewValue
          /\ ViewValue' # ViewValue => trk_records' = trk_records]_vars

\* records() returned a non-empty list, the Tracker was reset afterwards and
\* the host appended to the list it holds
C22_Witness ==
    /\ view.n > 0 /\ view.at # <<>>
    /\ trk_records[view.of] = <<>>
    /\ Len(ViewValue) > Len(view.at)
    /\ IsPrefix(view.at, ViewValue)

\* C26: no step changes a CallRecord that some Tracker has appended.
C26_AppendedNeverMutated ==
    [][\A o \in everAppended : heap'[o] = heap[o]]_vars

\* ------------------------------------------------------------ durable log
\* C24: Tracker(persist_path=p) never leaves by an exception.
C24_ConstructorNeverRaises == d_pc # "raised"

\* the rowids of the rows that can be decoded
Decodable == {i \in 1..Len(d_rows) : CanDecode(d_rows[i])}

\* C25: load_from_db returns nothing when the log is missing or unreadable;
\* otherwise it returns one record per decodable row and none for a corrupt
\* row, in ascending timestamp order, each with the model, provider, token
\* counts and cost of the record that was written to that row.
C25_LoadRoundTrip ==
    [][d_nloads' = d_nloads + 1 =>
          IF ~Readable
          THEN d_loaded' = <<>>
          ELSE /\ Len(d_loaded') = Cardinality(Decodable)
               /\ Len(d_src') = Len(d_loaded')
               /\ SeqSet(d_src') = Decodable
               /\ \A i, j \in 1..Len(d_loaded') :
                     i < j => d_loaded'[i].timestamp <= d_loaded'[j].timestamp
               /\ \A i \in 1..Len(d_loaded') :
                     LET got == d_loaded'[i]
                         w == d_written[d_src'[i]]
                     IN /\ got.model = w.model
                        /\ got.provider = w.provider
                        /\ got.input_tokens = w.input_tokens
                        /\ got.output_tokens = w.output_tokens
                        /\ got.cost_usd = w.cost_usd
                        /\ got.timestamp = w.timestamp]_vars

\* three records were written with timestamps out of order, one row was
\* corrupted, and a load returned the other two, the later-written first
C25_Witness ==
    /\ Len(d_rows) = 3 /\ Cardinality(Decodable) = 2
    /\ d_nloads > 0 /\ Len(d_loaded) = 2
    /\ d_src[1] > d_src[2]
    /\ d_loaded[1].timestamp < d_loaded[2].timestamp

\* a load from a log that was lost after records were written to it
C25_WitnessUnreadable ==
    /\ d_nloads > 0 /\ d_loaded = <<>>
    /\ d_path /\ d_file \in {"missing", "garbage"}
    /\ d_mem # <<>>

\* ----------------------------------------------- TokenspyCallbackHandler
\* C27: on_llm_end enters tracker.record only when a call is in flight: an
\* on_llm_start was received and no on_llm_end or on_llm_error since.
C27_EndRecordsOnlyInFlight ==
    [][(l_nev' = l_nev + 1 /\ ret'[Consumer] = "langchain") => l_inflight]_vars

\* ------------------------------------------------ _AnthropicStreamWrapper
\* the event carries no token count for the counter its type feeds
NoTokenCount(ev) ==
    \/ ev.type \notin {"message_start", "message_delta"}
    \/ ev.type = "message_start" /\ ~ev.message
    \/ ev.usage \in {NoUsage, NoCount}

\* C36: consuming an event that carries no token count leaves _input_tokens
\* and _output_tokens as they were.
C36_NoCountKeepsCounters ==
    [][(Len(a_pulled') = Len(a_pulled) + 1 /\ NoTokenCount(Last(a_pulled'))) =>
          (a_in' = a_in /\ a_out' = a_out)]_vars

\* C38: once the with block around the wrapper has been left, the underlying
\* stream's __exit__ has been called.
C38_StreamExitAlwaysCalled == a_with = "exited" => a_sexit

\* ------------------------------------------------ guards and other threads
\* the record() call of thread t invokes a check in this step
ChecksNow(t) == Len(called'[t]) = Len(called[t]) + 1

\* C32: a check is invoked only while the guarded call that registered it
\* has not returned.
C32_NoCheckAfterExit ==
    [][\A t \in Threads :
          ChecksNow(t) => Last(called'[t]) \in SeqSet(ActiveGuards(stack))]_vars

\* C33: a record call made by a thread other than the one running the
\* guarded function does not count toward the guard's spent (the guarded
\* functions here make no record call of their own: their spent is 0) and
\* gets neither the advisory nor the BudgetExceededError of the guard.
C33_SignalOnlyToGuardedUnit ==
    [][\A t \in Threads \ {Host} :
          ChecksNow(t) =>
             /\ Spent(g_env[Last(called'[t])].baseline) = 0
             /\ advisories' = advisories
             /\ pc'[t] # "raised"]_vars

\* C35: the spent a check computes is the summed cost of the records
\* appended since its guard was entered, is never negative, and the guard
\* fires whenever that sum exceeds the ceiling.
C35_SpentIsCostSinceEntry ==
    [][ChecksNow(Host) =>
          LET h == Last(called'[Host])
              since == issuedCost - g_env[h].entry
          IN /\ Spent(g_env[h].baseline) = since
             /\ Spent(g_env[h].baseline) >= 0
             /\ since > g_env[h].budget =>
                   \/ Len(advisories') = Len(advisories) + 1
                   \/ pc'[Host] = "raised"]_vars

\* ------------------------ the interceptor's current-function list changes
\* the name another profiled function puts in the interceptor's list
ScopeNames == {"other_func"}

\* _interceptor.set_current_function(name) as the profiler wrapper calls it on
\* entry to and exit from a profiled function (profiler.py:100, 130): the
\* list the stream wrappers hold a reference to is updated in place.  One
\* change is modelled, made after the first event was pulled and before the
\* stream is finalized.
set_current_function(name) ==
    /\ FnName(current_function) = target
    /\ a_pulled # <<>>
    /\ ~a_recorded
    /\ name # target
    /\ current_function' = <<name>>
    /\ UNCHANGED <<kwargs, anthVars, oaiVars>>
    /\ UNCHANGED <<trackerVars, threadVars, histVars, guardVars, extVars>>

NextScope ==
    \/ NextAnthropic
    \/ \E name \in ScopeNames : set_current_function(name)

\* the streaming create() call was made inside a profiled function
InitScope == InitStream /\ current_function # <<>>

SpecScope == InitScope /\ [][NextScope]_vars

\* C31: a stream's CallRecord is attributed to the function that was current
\* when the streaming create() call was intercepted, whatever the current
\* function is when the stream is finalized.
C31_AttributedToInterceptionScope ==
    /\ \A i \in 1..Len(records) : records[i].function_name = target
    /\ \A t \in Threads : pc[t] # "idle" => rec[t].function_name = target

\* ----------------------------------------------- revision tags (track_git)
\* the revision a caller may have set on the record it passes
GivenCommits == {NoCommit, "fedcba9"}

\* tokenspy.init(track_git=True) sets tracker._git_commit to the short SHA of
\* HEAD before anything is recorded   (profiler.py:204-212)
ConfigureGit ==
    /\ nextId = 1
    /\ git_commit = NoCommit
    /\ git_commit' = "abc1234"
    /\ UNCHANGED <<records, lock, hooks, persist_path, db>>
    /\ UNCHANGED <<threadVars, histVars, streamVars, guardVars, extVars>>

\* a host calls tracker.record(r) with a record whose git_commit it set or
\* left None   (tracker.py:61-64, 27)
RecordGiven(t) ==
    /\ pc[t] = "idle"
    /\ nextId <= MaxCalls
    /\ \E gc \in GivenCommits :
          /\ EnterRecord(t, [CallRecord(nextId, "test_fn", "gpt-4o", "openai", 0, 0, 1)
                                EXCEPT !.git_commit = gc], "direct")
          /\ given' = Append(given, gc)
    /\ nextId' = nextId + 1
    /\ UNCHANGED <<trackerVars, nextHook, appendLog, cleared, nresets>>
    /\ UNCHANGED <<streamVars, guardVars, objVars, durVars, lcVars>>
    /\ UNCHANGED <<target, global_tracker, trk_hooks, sw_guard, summ, create, patched,
                   original_create, ncalls, npatch>>

NextGit ==
    \/ ConfigureGit
    \/ \E t \in Threads : RecordGiven(t)
    \/ \E t \in Threads : RecordStep(t)
    \/ \E t \in Threads : Resume(t)
    \/ HookAppend

SpecGit == Init /\ [][NextGit]_vars

\* the tag a record must carry once record() has been entered
TagOf(r) == IF given[r.id] # NoCommit THEN given[r.id]
            ELSE git_commit

\* C37: a record passed to record() carries the Tracker's revision tag iff
\* the Tracker has one and the record had none; a revision the caller set is
\* kept; the tag is in place in the record that is appended, saved and
\* handed to the observers.
C37_StampBeforeVisible ==
    /\ \A i \in 1..Len(records) : records[i].git_commit = TagOf(records[i])
    /\ \A i \in 1..Len(db) : db[i].git_commit = TagOf(db[i])
    /\ \A t \in Threads : pc[t] # "idle" => rec[t].git_commit = TagOf(rec[t])

\* a configured Tracker has appended and saved a record it stamped and one
\* that kept its caller's revision, and an observer has been called
C37_Witness ==
    /\ git_commit = "abc1234"
    /\ Len(records) = 2
    /\ Len(db) = 2
    /\ given = <<NoCommit, "fedcba9">>
    /\ records[1].git_commit = "abc1234"
    /\ records[2].git_commit = "fedcba9"
    /\ \E t \in Threads : called[t] # <<>>

\* ------------------- the budget wrapper and a swap of the global Tracker
\* Tracker.total_cost() of Tracker k over the objects of heap h
\* (tracker.py:88-89)
TrkTotal(k, h, tr) == SumCost([i \in 1..Len(tr[k]) |-> h[tr[k][i]]])

\* wrapper(...) with budget_usd set and on_exceeded="warn", up to the call
\* of func: baseline = get_global_tracker().total_cost(), then
\* get_global_tracker()._post_record_hooks.append(guard)  (profiler.py:102-120)
SwapEnter ==
    /\ sw_guard.state = "none"
    /\ sw_guard' = [sw_guard EXCEPT !.state = "active", !.home = global_tracker,
                       !.baseline = TrkTotal(global_tracker, heap, trk_records)]
    /\ trk_hooks' = [trk_hooks EXCEPT ![global_tracker] = Append(@, 1)]
    /\ UNCHANGED <<global_tracker, objVars>>
    /\ UNCHANGED <<target, given, summ, create, patched, original_create, ncalls, npatch>>
    /\ UNCHANGED <<trackerVars, threadVars, histVars, streamVars, guardVars, durVars, lcVars>>

\* set_global_tracker(k), called directly or by tokenspy.init()
\* (tracker.py:247-249, profiler.py:216)
set_global_tracker(k) ==
    /\ k # global_tracker
    /\ global_tracker' = k
    /\ UNCHANGED <<trk_hooks, sw_guard, objVars>>
    /\ UNCHANGED <<target, given, summ, create, patched, original_create, ncalls, npatch>>
    /\ UNCHANGED <<trackerVars, threadVars, histVars, streamVars, guardVars, durVars, lcVars>>

\* _budget_check(rec) run against heap h and record lists tr:
\* spent = get_global_tracker().total_cost() - baseline; an advisory is
\* emitted when spent > budget_usd   (profiler.py:107-117).  `since` is the
\* history the check is compared with: the cost appended since entry to the
\* Tracker the guard was registered on.
BudgetCheck(h, tr) ==
    [spent |-> TrkTotal(global_tracker, h, tr) - sw_guard.baseline,
     since |-> TrkTotal(sw_guard.home, h, tr) - sw_guard.baseline,
     warned |-> TrkTotal(global_tracker, h, tr) - sw_guard.baseline > SwapBudget]

\* Tracker k records a new CallRecord: the append, then every observer of k
\* is called; the only observer there can be is the wrapper's check
\* (tracker.py:61-76)
SwapRecord(k) ==
    /\ Len(heap) < MaxObjs
    /\ Len(trk_records[k]) < MaxList
    /\ LET o == Len(heap) + 1
           h == Append(heap, Stamp(CallRecord(o, "test_fn", "gpt-4o", "openai", 0, 0, 1),
                                   trk_commit[k]))
           tr == [trk_records EXCEPT ![k] = Append(@, o)]
       IN /\ heap' = h
          /\ trk_records' = tr
          /\ everAppended' = everAppended \cup {o}
          /\ sw_guard' = IF trk_hooks[k] # <<>>
                         THEN [sw_guard EXCEPT !.checks = Append(@, BudgetCheck(h, tr))]
                         ELSE sw_guard
    /\ UNCHANGED <<trk_commit, view, global_tracker, trk_hooks>>
    /\ UNCHANGED <<target, given, summ, create, patched, original_create, ncalls, npatch>>
    /\ UNCHANGED <<trackerVars, threadVars, histVars, streamVars, guardVars, durVars, lcVars>>

\* func has returned or raised: the finally block removes the check from
\* get_global_tracker()._post_record_hooks; list.remove of an absent element
\* raises ValueError, which is swallowed   (profiler.py:124-129)
SwapExit ==
    /\ sw_guard.state = "active"
    /\ sw_guard' = [sw_guard EXCEPT !.state = "exited"]
    /\ trk_hooks' = [trk_hooks EXCEPT ![global_tracker] = Unregister(@, 1)]
    /\ UNCHANGED <<global_tracker, objVars>>
    /\ UNCHANGED <<target, given, summ, create, patched, original_create, ncalls, npatch>>
    /\ UNCHANGED <<trackerVars, threadVars, histVars, streamVars, guardVars, durVars, lcVars>>

NextSwap ==
    \/ SwapEnter
    \/ \E k \in Trackers : set_global_tracker(k)
    \/ \E k \in Trackers : SwapRecord(k)
    \/ SwapExit

SpecSwap == Init /\ [][NextSwap]_vars

\* C34: when the global Tracker is replaced while a guarded function runs,
\* the check is still removed at exit from the Tracker it was registered on,
\* and every spent the check computes is the cost appended since entry to
\* that same Tracker.
C34_GuardKeepsItsTracker ==
    /\ sw_guard.state = "exited" => \A k \in Trackers : trk_hooks[k] = <<>>
    /\ \A i \in 1..Len(sw_guard.checks) :
          sw_guard.checks[i].spent = sw_guard.checks[i].since

\* --------------------------------------------------------- Tracker.summary
\* Tracker.total_tokens(): sum(r.total_tokens), total_tokens being
\* input_tokens + output_tokens   (tracker.py:91-92, 35-37)
RECURSIVE SumTokens(_)
SumTokens(s) ==
    IF s = <<>> THEN 0
    ELSE s[1].input_tokens + s[1].output_tokens + SumTokens(Tail(s))

\* cost_by_function() / cost_by_model(): a dict from the key to the summed
\* cost of the records with that key   (tracker.py:97-107)
CostBy(recs, key) ==
    [k \in {recs[i][key] : i \in 1..Len(recs)} |->
        SumCost(SelectSeq(recs, LAMBDA r : r[key] = k))]

\* what summary() computes for one field from the list a records() call
\* returns at that moment   (tracker.py:110-131)
ReadField(f, recs) ==
    CASE f = "calls" -> recs
      [] f = "total_cost_usd" -> SumCost(recs)
      [] f = "total_tokens" -> SumTokens(recs)
      [] f = "by_function" -> CostBy(recs, "function_name")
      [] f = "by_model" -> CostBy(recs, "model")

\* the next read of a summary() call: `records = self.records()`, then
\* total_cost(), total_tokens(), cost_by_function() and cost_by_model(), each
\* of which calls self.records() again and so takes the lock for the copy
\* (tracker.py:78-80, 88-107, 109-131)
SummaryStep ==
    /\ summ.n < Len(SummaryFields)
    /\ lock = NoThread
    /\ summ' = [summ EXCEPT !.n = @ + 1,
                            ![SummaryFields[summ.n + 1]] =
                                ReadField(SummaryFields[summ.n + 1], records)]
    /\ UNCHANGED <<target, given, global_tracker, trk_hooks, sw_guard, create, patched,
                   original_create, ncalls, npatch>>
    /\ UNCHANGED <<trackerVars, threadVars, histVars, streamVars, guardVars, objVars,
                   durVars, lcVars>>

\* one thread records, another resets, while summary() runs
NextSummary ==
    \/ SummaryStep
    \/ RecordCall(Consumer)
    \/ RecordStep(Consumer)
    \/ Resume(Consumer)
    \/ ResetAcquire(Other)
    \/ ResetClear(Other)
    \/ HookAppend

SpecSummary == Init /\ [][NextSummary]_vars

\* C39: the dict summary() returns is consistent with itself, also when
\* other threads record or reset meanwhile: the totals and the per-function
\* and per-model costs are the sums over the entries of `calls`.
C39_SummaryConsistent ==
    summ.n = Len(SummaryFields) =>
        /\ summ.total_cost_usd = SumCost(summ.calls)
        /\ summ.total_tokens = SumTokens(summ.calls)
        /\ summ.by_function = CostBy(summ.calls, "function_name")
        /\ summ.by_model = CostBy(summ.calls, "model")

\* ------------------------------------------------ patch() and unpatch()
\* `if _patched: return True`   (openai.py:99-100, anthropic.py:117-118)
AlreadyPatched_never(flag) == FALSE
AlreadyPatched(flag) == flag

\* patch(tracker, current_function) of provider module p with the SDK
\* installed: a second call returns at once; otherwise the class's create is
\* saved in _original_create, _patched_create is installed and _patched is
\* set   (openai.py:90-151, anthropic.py:108-154)
patch(p) ==
    /\ npatch[p] < MaxPatch
    /\ npatch' = [npatch EXCEPT ![p] = @ + 1]
    /\ IF AlreadyPatched(patched[p])
       THEN UNCHANGED <<create, patched, original_create>>
       ELSE /\ original_create' = [original_create EXCEPT ![p] = create[p]]
            /\ create' = [create EXCEPT ![p] = "patched"]
            /\ patched' = [patched EXCEPT ![p] = TRUE]
    /\ UNCHANGED <<target, given, global_tracker, trk_hooks, sw_guard, summ, ncalls>>
    /\ UNCHANGED <<trackerVars, threadVars, histVars, streamVars, guardVars, objVars,
                   durVars, lcVars>>

\* unpatch() of provider module p: nothing when not patched; otherwise the
\* saved create is put back and the module state is cleared
\* (openai.py:154-175, anthropic.py:157-178)
unpatch(p) ==
    /\ npatch' = [npatch EXCEPT ![p] = 0]
    /\ IF ~patched[p]
       THEN UNCHANGED <<create, patched, original_create>>
       ELSE /\ create' = [create EXCEPT ![p] =
                             IF original_create[p] # "None" THEN original_create[p] ELSE @]
            /\ patched' = [patched EXCEPT ![p] = FALSE]
            /\ original_create' = [original_create EXCEPT ![p] = "None"]
    /\ UNCHANGED <<target, given, global_tracker, trk_hooks, sw_guard, summ, ncalls>>
    /\ UNCHANGED <<trackerVars, threadVars, histVars, streamVars, guardVars, objVars,
                   durVars, lcVars>>

\* the keyword arguments of a non-streaming create() call
\* (test_streaming.py:89-112)
NonStreamKw == [model |-> "gpt-4o"]

\* the responses of the SDK to such a call: one without usage, one with
\* (test_streaming.py:95-99)
NonStreamResponses ==
    {ch \in Chunks : ch.has_usage => ch.prompt_tokens = 1 /\ ch.completion_tokens = 1}

\* the CallRecord _record builds from the response of provider p's create()
\* (openai.py:178-210, anthropic.py:181-213; the Anthropic usage names its
\* counts input_tokens and output_tokens)
CreateRecord(p, resp) ==
    CallRecord(nextId, FnName(current_function), KwGet(NonStreamKw, "model", "unknown"),
               p, OaiInput(resp), OaiOutput(resp),
               calculate(KwGet(NonStreamKw, "model", "unknown"),
                         OaiInput(resp), OaiOutput(resp)))

\* the host calls the SDK class's create() without stream=True and the SDK
\* answers with resp.  The original method just returns resp.  The wrapper
\* calls the module's _original_create and hands the response to _record,
\* which returns at once without usage and calls tracker.record otherwise; a
\* wrapper whose _original_create is a wrapper calls itself until
\* RecursionError reaches the host   (openai.py:104-119, 191-210;
\* anthropic.py:122-137, 194-213)
CallCreate(t, p) ==
    /\ pc[t] = "idle"
    /\ nextId <= MaxCalls
    /\ \E resp \in NonStreamResponses :
          IF create[p] = "patched" /\ HasUsage(resp)
          THEN /\ ncalls' = ncalls + 1
               /\ IF original_create[p] = "original"
                  THEN /\ EnterRecord(t, CreateRecord(p, resp), "create")
                       /\ nextId' = nextId + 1
                  ELSE UNCHANGED <<threadVars, nextId, issuedCost, called, outs>>
          ELSE UNCHANGED <<threadVars, nextId, issuedCost, called, outs, ncalls>>
    /\ UNCHANGED <<trackerVars, nextHook, appendLog, cleared, nresets>>
    /\ UNCHANGED <<target, given, global_tracker, trk_hooks, sw_guard, summ, create,
                   patched, original_create, npatch>>
    /\ UNCHANGED <<streamVars, guardVars, objVars, durVars, lcVars>>

\* tracker.record has returned or raised inside _record: the wrapper hands
\* the response, or the signal, to the host   (openai.py:118-119, 212-213)
CreateDone(t) ==
    /\ pc[t] \in {"returned", "raised"}
    /\ ret[t] = "create"
    /\ LeaveRecord(t)
    /\ UNCHANGED <<trackerVars, nextId, nextHook, issuedCost, appendLog, cleared, nresets>>
    /\ UNCHANGED <<streamVars, guardVars, extVars>>

NextPatch ==
    \/ \E p \in Providers : patch(p)
    \/ \E p \in Providers : unpatch(p)
    \/ \E p \in Providers : CallCreate(Consumer, p)
    \/ CreateDone(Consumer)
    \/ RecordStep(Consumer)
    \/ HookAppend

SpecPatch == Init /\ [][NextPatch]_vars

\* C40: after any sequence of patch and unpatch calls the create method is
\* wrapped at most once: the saved original is never the wrapper, a patched
\* provider has the wrapper installed over the original, every intercepted
\* non-streaming call with usage has appended exactly one record, and a
\* provider that is not patched has the original create method.
C40_PatchIdempotentReversible ==
    /\ \A p \in Providers :
          /\ original_create[p] # "patched"
          /\ patched[p] => create[p] = "patched" /\ original_create[p] = "original"
          /\ ~patched[p] => create[p] = "original"
    /\ pc[Consumer] = "idle" => Len(appendLog) = ncalls

\* patch() was called twice on a provider, and the one intercepted call made
\* since has appended one record
C40_Witness ==
    \E p \in Providers :
        /\ npatch[p] = MaxPatch
        /\ patched[p]
        /\ ncalls = 1
        /\ Len(records) = 1
        /\ records[1].provider = p
        /\ pc[Consumer] = "idle"

====
